---- MODULE Spec2Model ----
(***************************************************************************)
(* The pubsub router base (PubsubBaseProtocol, src/src/index.js lines      *)
(* 718-1113) and its per-peer stream holder (PeerStreams,                  *)
(* src/unnamed/part_000), as a state machine.                              *)
(*                                                                         *)
(* JavaScript runs every handler to its next `await` without interruption, *)
(* so each action below is one such run: from the call (or the resumption  *)
(* of a suspended call) to the next suspension point or to the return.     *)
(* Suspended calls are kept in `pending` (and `stopping`) and resumed by   *)
(* their own actions, in any order.                                        *)
(***************************************************************************)
EXTENDS Integers, Sequences, FiniteSets, TLC

(***************************************************************************)
(* Bound of the model.                                                     *)
(***************************************************************************)
\* calls from outside that start something in one behaviour: a start() that
\* registers, a stop() that unregisters, an onConnect whose newStream will
\* resolve, an incoming stream, a subscription the subclass records.  Calls
\* that return at once or fail, calls on a PeerStreams, deletions and
\* resumptions are not counted.
MaxCalls == 3

(***************************************************************************)
(* Values.                                                                 *)
(***************************************************************************)
\* remote peers; NoPeer is `undefined`
PeerIds == {1, 2}
NoPeer == 0

\* PeerId.toB58String(): the textual form that keys `peers`
toB58String(peerId) ==
  CASE peerId = 1 -> "QmA"
    [] peerId = 2 -> "QmB"
    [] OTHER -> ""

B58Ids == {toB58String(p) : p \in PeerIds}

\* raw duplex streams are numbered as the host creates them; NoStream is null.
\* A pushable queue and an inbound iterator are named by the raw stream they
\* were built on.
Streams == 1 .. MaxCalls
NoStream == 0

\* PeerStreams objects are numbered as they are constructed; NoObj is undefined
Objs == 1 .. MaxCalls
NoObj == 0

Receipts == 1 .. MaxCalls
NoReceipt == 0

\* the single multicodec of the tests
Protocol == "/pubsub/1.0.0"

Topics == {"t"}

VARIABLES
  started,        \* this.started
  registrarId,    \* this._registrarId
  peers,          \* this.peers : base58 id -> PeerStreams (NoObj: no entry)
  topics,         \* this.topics : topic -> PeerStreams in insertion order
  strictSigning,  \* this.strictSigning
  signMessages,   \* this.signMessages
  ps,             \* the PeerStreams objects ever constructed
  nextObj,        \* the next PeerStreams object
  nextStream,     \* the next raw stream of the host
  nextReceipt,    \* the next receipt of the registrar
  reset,          \* raw streams on which reset() was called
  aborted,        \* inbound iterators whose AbortController was aborted
  live,           \* pushable queues whose onEnd has not run yet, with their owner
  handler,        \* registrar: the incoming-stream handler is registered
  topologies,     \* registrar: receipts of the registered topologies
  pending,        \* suspended calls: start, newStream, attachOutboundStream
  stopping,       \* number of stop() calls suspended in unregister
  calls,          \* counted calls so far (see MaxCalls)
  last,           \* the run that led to this state: operation, result, events
  lastMsg,        \* the message the last validate or verify was given
  buffer,         \* what write() pushed on each outbound queue, in order
  trace,          \* calls on the PeerStreams under test and the events its
                  \* listeners heard, since it was constructed
  wire,           \* the frames each raw outbound stream received, in order
  consumer,       \* what the loop over each inbound sequence has observed
  _dials,         \* dial-based router: this._dials
  dialing,        \* dial-based router: the dials of the host in flight
  listening,      \* dial-based router: peer:connect listeners registered
  dialPeers       \* dial-based router: this.peers, with _references

vars ==
  <<started, registrarId, peers, topics, strictSigning, signMessages, ps,
    nextObj, nextStream, nextReceipt, reset, aborted, live, handler,
    topologies, pending, stopping, calls, last, lastMsg,
                 buffer, trace, wire, consumer, _dials, dialing,
                 listening, dialPeers>>

(***************************************************************************)
(* Events and calls one run makes, in order.                               *)
(***************************************************************************)
Ev(e, id, o, s) == [e |-> e, id |-> id, o |-> o, s |-> s]

Log(H, entry) == [H EXCEPT !.log = Append(@, entry)]

\* how many entries of a log are event or call e
Count(log, e) == Cardinality({i \in 1 .. Len(log) : log[i].e = e})

\* how many times object o emitted event e in a log
Emitted(log, e, o) ==
  Cardinality({i \in 1 .. Len(log) : log[i].e = e /\ log[i].o = o})

(***************************************************************************)
(* PeerStreams (src/unnamed/part_000).  The operators below take the heap  *)
(* H (the objects, the peers map, the streams) and return the heap after   *)
(* the call, with the events and calls appended to H.log.                  *)
(***************************************************************************)
\* constructor: no streams; onceClose is the router's once('close') listener
NewPeerStreams(id, protocol) ==
  [id |-> id, protocol |-> protocol,
   rawOutboundStream |-> NoStream, rawInboundStream |-> NoStream,
   inboundAbortController |-> NoStream,
   outboundStream |-> NoStream, inboundStream |-> NoStream,
   onceClose |-> FALSE]

NoPeerStreams == NewPeerStreams(NoPeer, "")

isReadable(p) == p.inboundStream # NoStream

isWritable(p) == p.outboundStream # NoStream

RECURSIVE close(_, _)
RECURSIVE emit(_, _, _)
RECURSIVE _removePeer(_, _)
RECURSIVE onEnd(_, _, _)
RECURSIVE end(_, _, _)

\* EventEmitter.emit: the only listener ever added is the router's
\* once('close', () => this._removePeer(peerId)), removed before it runs
emit(H, o, ev) ==
  LET H1 == Log(H, Ev(ev, "", o, NoStream))
  IN IF ev = "close" /\ H.ps[o].onceClose
       THEN _removePeer([H1 EXCEPT !.ps[o].onceClose = FALSE], H.ps[o].id)
       ELSE H1

\* AbortController.abort() of the inbound iterator built on stream c
abort(H, c) ==
  [Log(H, Ev("call:abort", "", NoObj, c)) EXCEPT !.aborted = @ \cup {c}]

\* the onEnd callback given to pushable, run for the queue's owner o:
\* resets whatever raw outbound the owner holds now
onEnd(H, o, shouldEmit) ==
  LET raw == H.ps[o].rawOutboundStream
      H1 == [Log(H, Ev("call:reset", "", o, raw)) EXCEPT
               !.reset = @ \cup {raw},
               !.ps[o].rawOutboundStream = NoStream,
               !.ps[o].outboundStream = NoStream]
  IN IF raw = NoStream
       THEN Log(H, Ev("TypeError", "", o, NoStream))
       ELSE IF shouldEmit # "false" THEN emit(H1, o, "close") ELSE H1

\* pushable.end(arg): runs onEnd(arg) at once, the first time only
end(H, q, arg) ==
  LET mine == {r \in H.live : r.q = q}
  IN IF mine = {}
       THEN H
       ELSE LET r == CHOOSE r \in mine : TRUE
            IN onEnd([H EXCEPT !.live = @ \ {r}], r.o, arg)

\* attachInboundStream that keeps the raw stream but builds no iterator
attachInboundStream_noIterator(H, o, stream) ==
  LET _prevStream == H.ps[o].inboundStream
      H1 == IF _prevStream # NoStream
              THEN abort(H, H.ps[o].inboundAbortController)
              ELSE H
      H2 == [H1 EXCEPT !.ps[o].inboundAbortController = stream,
                       !.ps[o].rawInboundStream = stream]
  IN IF _prevStream = NoStream THEN emit(H2, o, "stream:inbound") ELSE H2

attachInboundStream(H, o, stream) ==
  LET _prevStream == H.ps[o].inboundStream
      H1 == IF _prevStream # NoStream
              THEN abort(H, H.ps[o].inboundAbortController)
              ELSE H
      H2 == [H1 EXCEPT !.ps[o].inboundAbortController = stream,
                       !.ps[o].rawInboundStream = stream,
                       !.ps[o].inboundStream = stream]
  IN IF _prevStream = NoStream THEN emit(H2, o, "stream:inbound") ELSE H2

\* attachOutboundStream that ends the previous queue with end() instead of
\* end(false)
attachOutboundStreamBegin_loud(H, o) ==
  IF H.ps[o].outboundStream # NoStream
    THEN end(H, H.ps[o].outboundStream, "undefined")
    ELSE H

\* attachOutboundStream up to its await: ends the previous queue quietly
attachOutboundStreamBegin(H, o) ==
  IF H.ps[o].outboundStream # NoStream
    THEN end(H, H.ps[o].outboundStream, "false")
    ELSE H

\* attachOutboundStream that emits stream:outbound on every attach
attachOutboundStreamFinish_alwaysEmits(H, o, stream, hadPrev) ==
  emit([H EXCEPT !.ps[o].rawOutboundStream = stream,
                 !.ps[o].outboundStream = stream,
                 !.live = @ \cup {[q |-> stream, o |-> o]}],
       o, "stream:outbound")

\* attachOutboundStream after its await (or from the start when there was no
\* previous queue): installs the raw stream and a new queue piped into it
attachOutboundStreamFinish(H, o, stream, hadPrev) ==
  LET H1 == [H EXCEPT !.ps[o].rawOutboundStream = stream,
                      !.ps[o].outboundStream = stream,
                      !.live = @ \cup {[q |-> stream, o |-> o]}]
  IN IF ~hadPrev THEN emit(H1, o, "stream:outbound") ELSE H1

close(H, o) ==
  LET H1 == IF H.ps[o].outboundStream # NoStream
              THEN end(H, H.ps[o].outboundStream, "undefined")
              ELSE H
      H2 == IF H1.ps[o].inboundStream # NoStream
              THEN abort(H1, H1.ps[o].inboundAbortController)
              ELSE H1
      H3 == [H2 EXCEPT !.ps[o].rawOutboundStream = NoStream,
                       !.ps[o].outboundStream = NoStream,
                       !.ps[o].rawInboundStream = NoStream,
                       !.ps[o].inboundStream = NoStream]
  IN emit(H3, o, "close")

(***************************************************************************)
(* PubsubBaseProtocol: the peer registry.                                  *)
(***************************************************************************)
\* _addPeer that does not listen to the close of the PeerStreams it makes
_addPeer_noListener(H, peerId, protocol) ==
  LET id == toB58String(peerId)
      o == H.nextObj
  IN IF H.peers[id] # NoObj
       THEN H
       ELSE [H EXCEPT !.ps[o] = NewPeerStreams(peerId, protocol),
                      !.peers[id] = o,
                      !.nextObj = o + 1]

\* _addPeer without the lookup of an existing entry
_addPeer_always(H, peerId, protocol) ==
  LET id == toB58String(peerId)
      o == H.nextObj
  IN [H EXCEPT !.ps[o] = [NewPeerStreams(peerId, protocol) EXCEPT
                            !.onceClose = TRUE],
               !.peers[id] = o,
               !.nextObj = o + 1]

\* returns the heap; the PeerStreams returned is H'.peers[id] in both cases
_addPeer(H, peerId, protocol) ==
  LET id == toB58String(peerId)
      o == H.nextObj
  IN IF H.peers[id] # NoObj
       THEN H
       ELSE [H EXCEPT !.ps[o] = [NewPeerStreams(peerId, protocol) EXCEPT
                                   !.onceClose = TRUE],
                      !.peers[id] = o,
                      !.nextObj = o + 1]

\* _removePeer that leaves the listeners on the PeerStreams it closes
_removePeer_keepsListeners(H, peerId) ==
  LET id == toB58String(peerId)
      H0 == Log(H, Ev("call:_removePeer", id, NoObj, NoStream))
      undef == Log(H0, Ev("return:_removePeer", id, NoObj, NoStream))
  IN IF peerId = NoPeer
       THEN undef
       ELSE IF H.peers[id] = NoObj
         THEN undef
         ELSE LET o == H.peers[id]
                  H2 == close(H0, o)
                  H3 == [H2 EXCEPT !.peers[id] = NoObj]
              IN Log(H3, Ev("return:_removePeer", id, o, NoStream))

\* _removePeer that closes the PeerStreams and leaves its entry in peers
_removePeer_noDelete(H, peerId) ==
  LET id == toB58String(peerId)
      H0 == Log(H, Ev("call:_removePeer", id, NoObj, NoStream))
      undef == Log(H0, Ev("return:_removePeer", id, NoObj, NoStream))
  IN IF peerId = NoPeer
       THEN undef
       ELSE IF H.peers[id] = NoObj
         THEN undef
         ELSE LET o == H.peers[id]
                  H1 == [H0 EXCEPT !.ps[o].onceClose = FALSE]
                  H2 == close(H1, o)
              IN Log(H2, Ev("return:_removePeer", id, o, NoStream))

\* _removePeer that deletes the entry and leaves the PeerStreams open
_removePeer_noClose(H, peerId) ==
  LET id == toB58String(peerId)
      H0 == Log(H, Ev("call:_removePeer", id, NoObj, NoStream))
      undef == Log(H0, Ev("return:_removePeer", id, NoObj, NoStream))
  IN IF peerId = NoPeer
       THEN undef
       ELSE IF H.peers[id] = NoObj
         THEN undef
         ELSE LET o == H.peers[id]
                  H1 == [H0 EXCEPT !.ps[o].onceClose = FALSE]
                  H3 == [H1 EXCEPT !.peers[id] = NoObj]
              IN Log(H3, Ev("return:_removePeer", id, o, NoStream))

\* the value returned is logged as return:_removePeer (o = NoObj: undefined)
_removePeer(H, peerId) ==
  LET id == toB58String(peerId)
      H0 == Log(H, Ev("call:_removePeer", id, NoObj, NoStream))
      undef == Log(H0, Ev("return:_removePeer", id, NoObj, NoStream))
  IN IF peerId = NoPeer
       THEN undef
       ELSE IF H.peers[id] = NoObj
         THEN undef
         ELSE LET o == H.peers[id]
                  H1 == [H0 EXCEPT !.ps[o].onceClose = FALSE]
                  H2 == close(H1, o)
                  H3 == [H2 EXCEPT !.peers[id] = NoObj]
              IN Log(H3, Ev("return:_removePeer", id, o, NoStream))

(***************************************************************************)
(* Messages and their signatures (src/src/message/sign.js).                *)
(***************************************************************************)
\* JavaScript values that are tested for truth: undefined, booleans, byte
\* arrays and promises (objects, truthy whatever they hold)
Undefined == [t |-> "undefined"]

Bool(b) == [t |-> "boolean", v |-> b]

Truthy(v) ==
  CASE v.t = "undefined" -> FALSE
    [] v.t = "boolean" -> v.v
    [] v.t = "string" -> v.v # ""
    [] v.t = "number" -> v.v # 0
    [] OTHER -> TRUE

\* what an async function returns
Resolved(v) == [t |-> "promise", state |-> "resolved", value |-> v]

Rejected(e) == [t |-> "promise", state |-> "rejected", value |-> e]

\* key pairs, named by their public key: an RSA key, whose peer id is a hash
\* of the key, and a secp256k1 key, which is inlined in its peer id
Keys == {"rsa", "secp256k1"}

KeyBytes(k) == [t |-> "bytes", key |-> k]

\* PeerId.createFromPubKey(key).id: the peer id bytes of a public key
IdOfKey(k) ==
  IF k = "secp256k1"
    THEN [mh |-> "identity", digest |-> k]
    ELSE [mh |-> "sha2-256", digest |-> k]

\* PeerId.createFromBytes(from).pubKey: only an identity multihash holds the key
InlinedKey(from) == IF from.mh = "identity" THEN from.digest ELSE "none"

SignPrefix == "libp2p-pubsub:"

\* Message.encode: the fields that are present, tagged, in field order; one
\* entry per topic
RECURSIVE EncodeTopics(_)
EncodeTopics(topicIDs) ==
  IF topicIDs = <<>>
    THEN <<>>
    ELSE <<<<4, Head(topicIDs)>>>> \o EncodeTopics(Tail(topicIDs))

\* an encoding that leaves seqno out
Encode_noSeqno(m) ==
  <<<<1, m.from>>, <<2, m.data>>>>
    \o EncodeTopics(m.topicIDs)
    \o (IF m.signature = Undefined THEN <<>> ELSE <<<<5, m.signature>>>>)
    \o (IF m.key = Undefined THEN <<>> ELSE <<<<6, m.key>>>>)

Encode(m) ==
  <<<<1, m.from>>, <<2, m.data>>, <<3, m.seqno>>>>
    \o EncodeTopics(m.topicIDs)
    \o (IF m.signature = Undefined THEN <<>> ELSE <<<<5, m.signature>>>>)
    \o (IF m.key = Undefined THEN <<>> ELSE <<<<6, m.key>>>>)

\* privKey.sign(bytes) of key pair k, and pubKey.verify(bytes, signature)
Signature(k, bytes) == [t |-> "bytes", signer |-> k, over |-> bytes]

PubKeyVerify(pubKey, bytes, signature) ==
  signature.signer = pubKey /\ signature.over = bytes

\* { ...message } with signature and key deleted
BaseMessage(m) == [m EXCEPT !.signature = Undefined, !.key = Undefined]

\* messagePublicKey that takes the carried key without comparing its peer id
\* with message.from
messagePublicKey_trustsKey(m) ==
  IF Truthy(m.key)
    THEN Resolved(m.key.key)
    ELSE IF InlinedKey(m.from) # "none"
           THEN Resolved(InlinedKey(m.from))
           ELSE Rejected("Could not get the public key from the originator id")

\* messagePublicKey: the promise it returns
messagePublicKey(m) ==
  IF Truthy(m.key)
    THEN IF IdOfKey(m.key.key) = m.from
           THEN Resolved(m.key.key)
           ELSE Rejected("Public Key does not match the originator")
    ELSE IF InlinedKey(m.from) # "none"
           THEN Resolved(InlinedKey(m.from))
           ELSE Rejected("Could not get the public key from the originator id")

\* verifySignature is an async function: what it returns is a promise
verifySignature(m) ==
  LET bytes == <<SignPrefix>> \o Encode(BaseMessage(m))
      pubKey == messagePublicKey(m)
  IN IF pubKey.state = "rejected"
       THEN pubKey
       ELSE Resolved(Bool(PubKeyVerify(pubKey.value, bytes, m.signature)))

\* validate that never asks for a signature
validate_neverStrict(strict, m) ==
  IF Truthy(m.signature) /\ ~Truthy(verifySignature(m))
    THEN "ERR_INVALID_SIGNATURE"
    ELSE "ok"

\* validate(message) with this.strictSigning = strict: the error code it
\* throws, or "ok"
validate(strict, m) ==
  IF strict /\ ~Truthy(m.signature)
    THEN "ERR_MISSING_SIGNATURE"
    ELSE IF Truthy(m.signature) /\ ~Truthy(verifySignature(m))
      THEN "ERR_INVALID_SIGNATURE"
      ELSE "ok"

\* the messages validate is given: any origin, with no signature or with the
\* signature of any key over any message, with no key or any key attached
Origins == {IdOfKey(k) : k \in Keys}

Unsigned ==
  [from : Origins, data : {"hello", "bye"}, seqno : {1},
   topicIDs : {<<"t">>}, signature : {Undefined}, key : {Undefined}]

Signatures == {Signature(k, <<SignPrefix>> \o Encode(b)) : k \in Keys, b \in Unsigned}

Messages ==
  [from : Origins, data : {"hello", "bye"}, seqno : {1},
   topicIDs : {<<"t">>},
   signature : {Undefined} \cup Signatures,
   key : {Undefined} \cup {KeyBytes(k) : k \in Keys}]

(***************************************************************************)
(* The heap the operators above work on, and what one run leaves behind.   *)
(***************************************************************************)
\* dial-based router: no entry in this.peers
NoReferences == 0

HeapNow ==
  [ps |-> ps, peers |-> peers, reset |-> reset, aborted |-> aborted,
   live |-> live, nextObj |-> nextObj, log |-> <<>>]

Commit(H) ==
  /\ ps' = H.ps
  /\ peers' = H.peers
  /\ reset' = H.reset
  /\ aborted' = H.aborted
  /\ live' = H.live
  /\ nextObj' = H.nextObj

Did(op, id, o, res, log) ==
  last' = [op |-> op, id |-> id, o |-> o, res |-> res, log |-> log]

\* a suspended call: k its kind, p the peer, o the PeerStreams, s the raw
\* stream it will install (for k = "start": the receipt register resolves to)
Cont(k, p, o, s) == [k |-> k, p |-> p, o |-> o, s |-> s]

NoMsg == [present |-> FALSE]

Init ==
  /\ started = FALSE
  /\ registrarId = NoReceipt
  /\ peers = [id \in B58Ids |-> NoObj]
  /\ topics = [t \in Topics |-> <<>>]
  /\ strictSigning = TRUE
  /\ signMessages = TRUE
  /\ ps = [o \in Objs |-> NoPeerStreams]
  /\ nextObj = 1
  /\ nextStream = 1
  /\ nextReceipt = 1
  /\ reset = {}
  /\ aborted = {}
  /\ live = {}
  /\ handler = FALSE
  /\ topologies = {}
  /\ pending = {}
  /\ stopping = 0
  /\ calls = 0
  /\ last = [op |-> "new", id |-> "", o |-> NoObj, res |-> "", log |-> <<>>]
  /\ lastMsg = NoMsg
  /\ buffer = [s \in Streams |-> <<>>]
  /\ trace = <<>>
  /\ wire = [s \in Streams |-> <<>>]
  /\ consumer = [s \in Streams |-> "iterating"]
  /\ _dials = {}
  /\ dialing = {}
  /\ listening = 0
  /\ dialPeers = [id \in B58Ids |-> NoReferences]

(***************************************************************************)
(* Lifecycle.                                                              *)
(***************************************************************************)
\* start() that catches the errors of registrar.handle and registrar.register
start_swallows ==
  IF started
    THEN /\ Did("start", "", NoObj, "already started", <<>>)
         /\ UNCHANGED <<handler, topologies, pending, nextReceipt, calls>>
    ELSE \/ /\ calls < MaxCalls
            /\ calls' = calls + 1
            /\ handler' = TRUE
            /\ topologies' = topologies \cup {nextReceipt}
            /\ pending' = pending \cup
                 {Cont("start", NoPeer, NoObj, nextReceipt)}
            /\ nextReceipt' = nextReceipt + 1
            /\ Did("start", "", NoObj, "suspended",
                   <<Ev("call:handle", "", NoObj, NoStream),
                     Ev("call:register", "", NoObj, nextReceipt)>>)
         \/ /\ Did("start", "", NoObj, "ok",
                   <<Ev("call:handle", "", NoObj, NoStream)>>)
            /\ UNCHANGED <<handler, topologies, pending, nextReceipt, calls>>
         \/ /\ handler' = TRUE
            /\ Did("start", "", NoObj, "ok",
                   <<Ev("call:handle", "", NoObj, NoStream),
                     Ev("call:register", "", NoObj, NoReceipt)>>)
            /\ UNCHANGED <<topologies, pending, nextReceipt, calls>>

\* start() without `if (this.started) return`
start_noGuard ==
  \/ /\ calls < MaxCalls
     /\ calls' = calls + 1
     /\ handler' = TRUE
     /\ topologies' = topologies \cup {nextReceipt}
     /\ pending' = pending \cup {Cont("start", NoPeer, NoObj, nextReceipt)}
     /\ nextReceipt' = nextReceipt + 1
     /\ Did("start", "", NoObj, "suspended",
            <<Ev("call:handle", "", NoObj, NoStream),
              Ev("call:register", "", NoObj, nextReceipt)>>)
  \/ /\ Did("start", "", NoObj, "error",
            <<Ev("call:handle", "", NoObj, NoStream),
              Ev("throw", "", NoObj, NoStream)>>)
     /\ UNCHANGED <<handler, topologies, pending, nextReceipt, calls>>

\* start() up to `await this.registrar.register(topology)`.  registrar.handle
\* or registrar.register may fail: the error leaves start() and nothing is set.
start ==
  IF started
    THEN /\ Did("start", "", NoObj, "already started", <<>>)
         /\ UNCHANGED <<handler, topologies, pending, nextReceipt, calls>>
    ELSE \/ /\ calls < MaxCalls
            /\ calls' = calls + 1
            /\ handler' = TRUE
            /\ topologies' = topologies \cup {nextReceipt}
            /\ pending' = pending \cup
                 {Cont("start", NoPeer, NoObj, nextReceipt)}
            /\ nextReceipt' = nextReceipt + 1
            /\ Did("start", "", NoObj, "suspended",
                   <<Ev("call:handle", "", NoObj, NoStream),
                     Ev("call:register", "", NoObj, nextReceipt)>>)
         \/ /\ Did("start", "", NoObj, "error",
                   <<Ev("call:handle", "", NoObj, NoStream),
                     Ev("throw", "", NoObj, NoStream)>>)
            /\ UNCHANGED <<handler, topologies, pending, nextReceipt, calls>>
         \/ /\ handler' = TRUE
            /\ Did("start", "", NoObj, "error",
                   <<Ev("call:handle", "", NoObj, NoStream),
                     Ev("call:register", "", NoObj, NoReceipt),
                     Ev("throw", "", NoObj, NoStream)>>)
            /\ UNCHANGED <<topologies, pending, nextReceipt, calls>>

Start ==
  /\ start
  /\ UNCHANGED <<started, registrarId, peers, topics, strictSigning,
                 signMessages, ps, nextObj, nextStream, reset, aborted, live,
                 stopping, lastMsg,
                 buffer, trace, wire, consumer, _dials, dialing,
                 listening, dialPeers>>

\* start() after the await: the receipt is stored and started set
StartResume(c) ==
  /\ c.k = "start"
  /\ registrarId' = c.s
  /\ started' = TRUE
  /\ pending' = pending \ {c}
  /\ Did("start:resume", "", NoObj, "ok", <<>>)
  /\ UNCHANGED <<peers, topics, strictSigning, signMessages, ps, nextObj,
                 nextStream, nextReceipt, reset, aborted, live, handler,
                 topologies, stopping, calls, lastMsg,
                 buffer, trace, wire, consumer, _dials, dialing,
                 listening, dialPeers>>

\* stop() without `if (!this.started) return`
stop_noGuard ==
  \/ /\ calls < MaxCalls
     /\ calls' = calls + 1
     /\ topologies' = topologies \ {registrarId}
     /\ handler' = FALSE
     /\ stopping' = stopping + 1
     /\ Did("stop", "", NoObj, "suspended",
            <<Ev("call:unregister", "", NoObj, registrarId)>>)
  \/ /\ Did("stop", "", NoObj, "error",
            <<Ev("call:unregister", "", NoObj, registrarId),
              Ev("throw", "", NoObj, NoStream)>>)
     /\ UNCHANGED <<handler, topologies, stopping, calls>>

\* stop() up to `await this.registrar.unregister(this._registrarId)`; the
\* registrar drops the topology and the handler, or fails
stop ==
  IF ~started
    THEN /\ Did("stop", "", NoObj, "not started", <<>>)
         /\ UNCHANGED <<handler, topologies, stopping, calls>>
    ELSE \/ /\ calls < MaxCalls
            /\ calls' = calls + 1
            /\ topologies' = topologies \ {registrarId}
            /\ handler' = FALSE
            /\ stopping' = stopping + 1
            /\ Did("stop", "", NoObj, "suspended",
                   <<Ev("call:unregister", "", NoObj, registrarId)>>)
         \/ /\ Did("stop", "", NoObj, "error",
                   <<Ev("call:unregister", "", NoObj, registrarId),
                     Ev("throw", "", NoObj, NoStream)>>)
            /\ UNCHANGED <<handler, topologies, stopping, calls>>

Stop ==
  /\ stop
  /\ UNCHANGED <<started, registrarId, peers, topics, strictSigning,
                 signMessages, ps, nextObj, nextStream, nextReceipt, reset,
                 aborted, live, pending, lastMsg,
                 buffer, trace, wire, consumer, _dials, dialing,
                 listening, dialPeers>>

\* a forEach that closes nothing
forEachClose_skip(H, todo) == H

\* this.peers.forEach((peerStreams) => peerStreams.close()): entries deleted
\* while iterating are not visited.  One close() touches its own PeerStreams
\* and its own entry only, so the order of the visits (here: by peer id)
\* changes nothing but the order of the log.
RECURSIVE forEachClose(_, _)
forEachClose(H, todo) ==
  IF todo = {}
    THEN H
    ELSE LET p == CHOOSE i \in todo : \A j \in todo : i <= j
             id == toB58String(p)
         IN forEachClose(IF H.peers[id] # NoObj
                           THEN close(H, H.peers[id])
                           ELSE H,
                         todo \ {p})

\* stop() after the await
StopResume ==
  /\ stopping > 0
  /\ LET H == forEachClose(HeapNow, PeerIds)
     IN /\ Commit([H EXCEPT !.peers = [id \in B58Ids |-> NoObj]])
        /\ Did("stop:resume", "", NoObj, "ok", H.log)
  /\ started' = FALSE
  /\ stopping' = stopping - 1
  /\ UNCHANGED <<registrarId, topics, strictSigning, signMessages, nextStream,
                 nextReceipt, handler, topologies, pending, calls, lastMsg,
                 buffer, trace, wire, consumer, _dials, dialing,
                 listening, dialPeers>>

(***************************************************************************)
(* Registrar events.  The registrar calls the incoming-stream handler      *)
(* while it is registered, and onConnect / onDisconnect while a topology   *)
(* of this router is registered.                                           *)
(***************************************************************************)
\* stop() after the await, when close() of the PeerStreams of p throws: reset()
\* of its raw outbound stream fails inside onEnd, before onEnd or close()
\* clears any field.  forEach visits the entries in insertion order, which is
\* the order in which the PeerStreams were constructed; the exception leaves
\* forEach and stop() with the later entries not visited.
StopResumeCloseFails(p) ==
  /\ stopping > 0
  /\ peers[toB58String(p)] # NoObj
  /\ isWritable(ps[peers[toB58String(p)]])
  /\ LET o == peers[toB58String(p)]
         before == {q \in PeerIds : /\ peers[toB58String(q)] # NoObj
                                    /\ peers[toB58String(q)] < o}
         H == forEachClose(HeapNow, before)
         H1 == Log(H, Ev("call:reset", toB58String(p), o,
                         ps[o].rawOutboundStream))
         H2 == Log(H1, Ev("throw", toB58String(p), o, NoStream))
     IN /\ Commit(H2)
        /\ Did("stop:closeFailed", toB58String(p), o, "error", H2.log)
  /\ stopping' = stopping - 1
  /\ UNCHANGED <<started, registrarId, topics, strictSigning, signMessages,
                 nextStream, nextReceipt, handler, topologies, pending, calls,
                 lastMsg, buffer, trace, wire, consumer, _dials, dialing,
                 listening, dialPeers>>

\* _onIncomingStream({ protocol, stream, connection }), remotePeer = p
OnIncomingStream(p) ==
  /\ handler
  /\ calls < MaxCalls
  /\ calls' = calls + 1
  /\ LET idB58Str == toB58String(p)
         H1 == _addPeer(HeapNow, p, Protocol)
         peer == H1.peers[idB58Str]
         H2 == attachInboundStream(H1, peer, nextStream)
         H3 == Log(H2, Ev("call:_processMessages", idB58Str, peer,
                          H2.ps[peer].inboundStream))
     IN /\ Commit(H3)
        /\ Did("_onIncomingStream", idB58Str, peer, "ok", H3.log)
  /\ nextStream' = nextStream + 1
  /\ UNCHANGED <<started, registrarId, topics, strictSigning, signMessages,
                 nextReceipt, handler, topologies, pending, stopping, lastMsg,
                 buffer, trace, wire, consumer, _dials, dialing,
                 listening, dialPeers>>

\* _onPeerConnected without the try/catch around newStream
OnPeerConnected_noCatch(p) ==
  /\ topologies # {}
  /\ \/ /\ calls < MaxCalls
        /\ calls' = calls + 1
        /\ pending' = pending \cup {Cont("newStream", p, NoObj, nextStream)}
        /\ nextStream' = nextStream + 1
        /\ Did("_onPeerConnected", toB58String(p), NoObj, "suspended",
               <<Ev("call:newStream", toB58String(p), NoObj, nextStream)>>)
     \/ /\ Did("_onPeerConnected", toB58String(p), NoObj, "error",
               <<Ev("call:newStream", toB58String(p), NoObj, NoStream),
                 Ev("throw", toB58String(p), NoObj, NoStream)>>)
        /\ UNCHANGED <<pending, nextStream, calls>>
  /\ UNCHANGED <<started, registrarId, peers, topics, strictSigning,
                 signMessages, ps, nextObj, nextReceipt, reset, aborted, live,
                 handler, topologies, stopping, lastMsg,
                 buffer, trace, wire, consumer, _dials, dialing,
                 listening, dialPeers>>

\* _onPeerConnected(p, conn) up to `await conn.newStream(this.multicodecs)`;
\* when newStream fails the catch logs the error and the handler is over
OnPeerConnected(p) ==
  /\ topologies # {}
  /\ \/ /\ calls < MaxCalls
        /\ calls' = calls + 1
        /\ pending' = pending \cup {Cont("newStream", p, NoObj, nextStream)}
        /\ nextStream' = nextStream + 1
        /\ Did("_onPeerConnected", toB58String(p), NoObj, "suspended",
               <<Ev("call:newStream", toB58String(p), NoObj, nextStream)>>)
     \/ /\ Did("_onPeerConnected", toB58String(p), NoObj, "newStream failed",
               <<Ev("call:newStream", toB58String(p), NoObj, NoStream),
                 Ev("log.err", toB58String(p), NoObj, NoStream)>>)
        /\ UNCHANGED <<pending, nextStream, calls>>
  /\ UNCHANGED <<started, registrarId, peers, topics, strictSigning,
                 signMessages, ps, nextObj, nextReceipt, reset, aborted, live,
                 handler, topologies, stopping, lastMsg,
                 buffer, trace, wire, consumer, _dials, dialing,
                 listening, dialPeers>>

\* _onPeerConnected after newStream resolved with stream c.s: _addPeer, then
\* attachOutboundStream, which is over at once when there was no previous
\* queue and suspends after ending the previous queue otherwise
NewStreamResolved(c) ==
  /\ c.k = "newStream"
  /\ LET idB58Str == toB58String(c.p)
         H1 == _addPeer(HeapNow, c.p, Protocol)
         peer == H1.peers[idB58Str]
         _prevStream == H1.ps[peer].outboundStream
         H2 == attachOutboundStreamBegin(H1, peer)
         H3 == attachOutboundStreamFinish(H2, peer, c.s, FALSE)
     IN IF _prevStream # NoStream
          THEN /\ Commit(H2)
               /\ pending' = (pending \ {c}) \cup
                    {Cont("attachOutboundStream", c.p, peer, c.s)}
               /\ Did("_onPeerConnected:newStream", idB58Str, peer,
                      "suspended", H2.log)
          ELSE /\ Commit(H3)
               /\ pending' = pending \ {c}
               /\ Did("_onPeerConnected:newStream", idB58Str, peer,
                      "ok", H3.log)
  /\ UNCHANGED <<started, registrarId, topics, strictSigning, signMessages,
                 nextStream, nextReceipt, handler, topologies, stopping,
                 calls, lastMsg,
                 buffer, trace, wire, consumer, _dials, dialing,
                 listening, dialPeers>>

\* attachOutboundStream after `await this.outboundStream.end(false)`; with it
\* _onPeerConnected is over
AttachOutboundResumed(c) ==
  /\ c.k = "attachOutboundStream"
  /\ LET H == attachOutboundStreamFinish(HeapNow, c.o, c.s, TRUE)
     IN /\ Commit(H)
        /\ Did("_onPeerConnected:attached", toB58String(c.p), c.o, "ok", H.log)
  /\ pending' = pending \ {c}
  /\ UNCHANGED <<started, registrarId, topics, strictSigning, signMessages,
                 nextStream, nextReceipt, handler, topologies, stopping,
                 calls, lastMsg,
                 buffer, trace, wire, consumer, _dials, dialing,
                 listening, dialPeers>>

\* _onPeerDisconnected(p, err)
OnPeerDisconnected(p) ==
  /\ topologies # {}
  /\ LET H == _removePeer(HeapNow, p)
     IN /\ Commit(H)
        /\ Did("_onPeerDisconnected", toB58String(p), NoObj, "ok", H.log)
  /\ UNCHANGED <<started, registrarId, topics, strictSigning, signMessages,
                 nextStream, nextReceipt, handler, topologies, pending,
                 stopping, calls, lastMsg,
                 buffer, trace, wire, consumer, _dials, dialing,
                 listening, dialPeers>>

(***************************************************************************)
(* What the subclass and the streams do to a PeerStreams.                  *)
(***************************************************************************)
\* PeerStreams.close() called on any PeerStreams constructed so far
PeerStreamsClose(o) ==
  /\ o < nextObj
  /\ LET H == close(HeapNow, o)
     IN /\ Commit(H)
        /\ Did("close", toB58String(ps[o].id), o, "ok", H.log)
  /\ UNCHANGED <<started, registrarId, topics, strictSigning, signMessages,
                 nextStream, nextReceipt, handler, topologies, pending,
                 stopping, calls, lastMsg,
                 buffer, trace, wire, consumer, _dials, dialing,
                 listening, dialPeers>>

\* the pipe of queue r.q into its raw stream is over (the sink returned or
\* failed): the pipe returns the queue, whose onEnd() runs
OutboundPipeEnded(r) ==
  /\ r \in live
  /\ LET H == onEnd([HeapNow EXCEPT !.live = @ \ {r}], r.o, "undefined")
     IN /\ Commit(H)
        /\ Did("pipe:ended", toB58String(ps[r.o].id), r.o, "ok", H.log)
  /\ UNCHANGED <<started, registrarId, topics, strictSigning, signMessages,
                 nextStream, nextReceipt, handler, topologies, pending,
                 stopping, calls, lastMsg,
                 buffer, trace, wire, consumer, _dials, dialing,
                 listening, dialPeers>>

(***************************************************************************)
(* The subclass owns `topics`: it adds a PeerStreams it finds in `peers`   *)
(* to a topic when that peer subscribes, and deletes it again.             *)
(***************************************************************************)
InSeq(seq, x) == \E i \in 1 .. Len(seq) : seq[i] = x

SubclassAddsSubscriber(t, id) ==
  /\ peers[id] # NoObj
  /\ ~InSeq(topics[t], peers[id])
  /\ calls < MaxCalls
  /\ calls' = calls + 1
  /\ topics' = [topics EXCEPT ![t] = Append(@, peers[id])]
  /\ Did("subclass:add", id, peers[id], "ok", <<>>)
  /\ UNCHANGED <<started, registrarId, peers, strictSigning, signMessages,
                 ps, nextObj, nextStream, nextReceipt, reset, aborted, live,
                 handler, topologies, pending, stopping, lastMsg,
                 buffer, trace, wire, consumer, _dials, dialing,
                 listening, dialPeers>>

SubclassDeletesSubscriber(t, o) ==
  /\ InSeq(topics[t], o)
  /\ topics' = [topics EXCEPT ![t] = SelectSeq(@, LAMBDA x : x # o)]
  /\ Did("subclass:delete", toB58String(ps[o].id), o, "ok", <<>>)
  /\ UNCHANGED <<started, registrarId, peers, strictSigning, signMessages,
                 ps, nextObj, nextStream, nextReceipt, reset, aborted, live,
                 handler, topologies, pending, stopping, calls, lastMsg,
                 buffer, trace, wire, consumer, _dials, dialing,
                 listening, dialPeers>>

(***************************************************************************)
(* Message validation, on a router of any signing policy.                  *)
(***************************************************************************)
Validate(m) ==
  /\ lastMsg' = m
  /\ Did("validate", "", NoObj, validate(strictSigning, m), <<>>)
  /\ UNCHANGED <<started, registrarId, peers, topics, strictSigning,
                 signMessages, ps, nextObj, nextStream, nextReceipt, reset,
                 aborted, live, handler, topologies, pending, stopping, calls,
                 buffer, trace, wire, consumer, _dials, dialing,
                 listening, dialPeers>>

Next ==
  \/ Start
  \/ \E c \in pending : StartResume(c)
  \/ Stop
  \/ StopResume
  \/ \E p \in PeerIds : StopResumeCloseFails(p)
  \/ \E p \in PeerIds : OnIncomingStream(p)
  \/ \E p \in PeerIds : OnPeerConnected(p)
  \/ \E c \in pending : NewStreamResolved(c)
  \/ \E c \in pending : AttachOutboundResumed(c)
  \/ \E p \in PeerIds : OnPeerDisconnected(p)
  \/ \E o \in Objs : PeerStreamsClose(o)
  \/ \E r \in live : OutboundPipeEnded(r)
  \/ \E t \in Topics, id \in B58Ids : SubclassAddsSubscriber(t, id)
  \/ \E t \in Topics, o \in Objs : SubclassDeletesSubscriber(t, o)

Spec == Init /\ [][Next]_vars

\* the policies are constructor options (and the tests set strictSigning)
InitMsg ==
  /\ started = FALSE
  /\ registrarId = NoReceipt
  /\ peers = [id \in B58Ids |-> NoObj]
  /\ topics = [t \in Topics |-> <<>>]
  /\ strictSigning \in BOOLEAN
  /\ signMessages \in BOOLEAN
  /\ ps = [o \in Objs |-> NoPeerStreams]
  /\ nextObj = 1
  /\ nextStream = 1
  /\ nextReceipt = 1
  /\ reset = {}
  /\ aborted = {}
  /\ live = {}
  /\ handler = FALSE
  /\ topologies = {}
  /\ pending = {}
  /\ stopping = 0
  /\ calls = 0
  /\ last = [op |-> "new", id |-> "", o |-> NoObj, res |-> "", log |-> <<>>]
  /\ lastMsg = NoMsg
  /\ buffer = [s \in Streams |-> <<>>]
  /\ trace = <<>>
  /\ wire = [s \in Streams |-> <<>>]
  /\ consumer = [s \in Streams |-> "iterating"]
  /\ _dials = {}
  /\ dialing = {}
  /\ listening = 0
  /\ dialPeers = [id \in B58Ids |-> NoReferences]

NextMsg == \E m \in Messages : Validate(m)

SpecMsg == InitMsg /\ [][NextMsg]_vars

(***************************************************************************)
(* Signing a message and verifying it, unchanged or with one field changed *)
(* in between.                                                             *)
(***************************************************************************)
\* signMessage(peerId, message) with the key pair k of peerId: the promise it
\* returns (privKey.sign is taken to succeed)
signMessage(k, m) ==
  Resolved([m EXCEPT !.signature = Signature(k, <<SignPrefix>> \o Encode(m)),
                     !.key = KeyBytes(k)])

\* the messages given to signMessage, and the values a field may be changed to
Fields ==
  [from |-> Origins,
   data |-> {"hello", "bye"},
   seqno |-> {1, 2},
   topicIDs |-> {<<"t">>, <<"t", "u">>, <<"u", "t">>}]

ToSign ==
  [from : Fields.from, data : Fields.data, seqno : Fields.seqno,
   topicIDs : Fields.topicIDs, signature : {Undefined}, key : {Undefined}]

\* await verifySignature(await signMessage(peerId, m))
SignThenVerify(k, m) ==
  /\ lastMsg' = signMessage(k, m).value
  /\ last' = [op |-> "sign+verify", id |-> "", o |-> NoObj,
              res |-> verifySignature(signMessage(k, m).value),
              log |-> <<Ev("call:signMessage", k, NoObj, m)>>]
  /\ UNCHANGED <<started, registrarId, peers, topics, strictSigning,
                 signMessages, ps, nextObj, nextStream, nextReceipt, reset,
                 aborted, live, handler, topologies, pending, stopping, calls,
                 buffer, trace, wire, consumer, _dials, dialing,
                 listening, dialPeers>>

\* the same with field f of the signed message set to another value v before
\* it is verified
SignChangeVerify(k, m, f, v) ==
  /\ v # m[f]
  /\ lastMsg' = [signMessage(k, m).value EXCEPT ![f] = v]
  /\ last' = [op |-> "sign+change+verify", id |-> f, o |-> NoObj,
              res |-> verifySignature(
                        [signMessage(k, m).value EXCEPT ![f] = v]),
              log |-> <<Ev("call:signMessage", k, NoObj, m)>>]
  /\ UNCHANGED <<started, registrarId, peers, topics, strictSigning,
                 signMessages, ps, nextObj, nextStream, nextReceipt, reset,
                 aborted, live, handler, topologies, pending, stopping, calls,
                 buffer, trace, wire, consumer, _dials, dialing,
                 listening, dialPeers>>

\* messages that carry a signature and a key, or a key alone, before they are
\* given to signMessage
Carrying ==
  {signMessage(k, m).value : k \in Keys, m \in ToSign}
    \cup {[m EXCEPT !.key = KeyBytes(k)] : k \in Keys, m \in ToSign}

\* await verifySignature(await signMessage(peerId, m)) for such a message
SignCarrying(k, m) ==
  /\ lastMsg' = signMessage(k, m).value
  /\ last' = [op |-> "sign+verify:carrying", id |-> "", o |-> NoObj,
              res |-> verifySignature(signMessage(k, m).value),
              log |-> <<Ev("call:signMessage", k, NoObj, m)>>]
  /\ UNCHANGED <<started, registrarId, peers, topics, strictSigning,
                 signMessages, ps, nextObj, nextStream, nextReceipt, reset,
                 aborted, live, handler, topologies, pending, stopping, calls,
                 buffer, trace, wire, consumer, _dials, dialing,
                 listening, dialPeers>>

NextSign ==
  \/ \E k \in Keys, m \in ToSign : SignThenVerify(k, m)
  \/ \E k \in Keys, m \in ToSign, f \in DOMAIN Fields :
       \E v \in Fields[f] : SignChangeVerify(k, m, f, v)
  \/ \E k \in Keys, m \in Carrying : SignCarrying(k, m)

SpecSign == Init /\ [][NextSign]_vars

(***************************************************************************)
(* One PeerStreams on its own: constructed outside any router, its methods *)
(* called one after the other by its holder, every call and every event    *)
(* recorded in `trace`.                                                    *)
(***************************************************************************)
\* ---- _buildMessage ----

\* a JavaScript string, where the other values of data are Buffers, and a
\* base58 string of a peer id, where the other values of from are id bytes
String(bytes) == IF bytes = "hello" THEN "'hello'" ELSE "'bye'"

IsString(data) == data \in {"'hello'", "'bye'"}

BufferFrom(string) == IF string = "'hello'" THEN "hello" ELSE "bye"

B58String(id) == [b58 |-> id]

IsB58String(from) == "b58" \in DOMAIN from

\* utils.normalizeOutRpcMessage: a copy of the message in which a string
\* from is decoded to the id bytes and a string data is made a Buffer
normalizeOutRpcMessage(message) ==
  [message EXCEPT
     !.from = IF IsB58String(@) THEN @.b58 ELSE @,
     !.data = IF IsString(@) THEN BufferFrom(@) ELSE @]

\* _buildMessage that signs the message as it was given
_buildMessage_signsRaw(sign, peerId, message) ==
  IF sign THEN signMessage(peerId, message) ELSE message

_buildMessage(sign, peerId, message) ==
  LET msg == normalizeOutRpcMessage(message)
  IN  IF sign THEN signMessage(peerId, msg) ELSE message

\* await of a promise or of a plain value
Await(x) == IF "state" \in DOMAIN x THEN x.value ELSE x

\* well-formed messages given to _buildMessage: from and data as bytes or as
\* strings, no signature and no key
ToBuild ==
  [from : Origins \cup {B58String(id) : id \in Origins},
   data : Fields.data \cup {String(d) : d \in Fields.data},
   seqno : Fields.seqno, topicIDs : {<<"t">>},
   signature : {Undefined}, key : {Undefined}]

\* validate(await _buildMessage(message)) on a router whose peer id is that
\* of key pair peerId
BuildThenValidate(peerId, m) ==
  /\ lastMsg' = Await(_buildMessage(signMessages, peerId, m))
  /\ last' = [op |-> "_buildMessage+validate", id |-> "", o |-> NoObj,
              res |-> validate(strictSigning,
                               Await(_buildMessage(signMessages, peerId, m))),
              log |-> <<Ev("call:_buildMessage", peerId, NoObj, m)>>]
  /\ UNCHANGED <<started, registrarId, peers, topics, strictSigning,
                 signMessages, ps, nextObj, nextStream, nextReceipt, reset,
                 aborted, live, handler, topologies, pending, stopping, calls,
                 buffer, trace, wire, consumer, _dials, dialing,
                 listening, dialPeers>>

NextBuild == \E peerId \in Keys, m \in ToBuild : BuildThenValidate(peerId, m)

SpecBuild == InitMsg /\ [][NextBuild]_vars

\* ---- getSubscribers ----

\* what a caller may pass as topic: a string (the topic of the router,
\* another one, the empty one), nothing, or a number
Str(s) == [t |-> "string", v |-> s]

Number(n) == [t |-> "number", v |-> n]

TopicArgs == {Str("t"), Str("u"), Str(""), Undefined, Number(5)}

Thrown(code) == [err |-> code, value |-> <<>>]

\* getSubscribers that leaves out the PeerStreams that are closed
getSubscribers_skipsClosed(isStarted, topicsMap, objs, topic) ==
  IF ~isStarted
    THEN Thrown("ERR_NOT_STARTED_YET")
    ELSE IF ~Truthy(topic) \/ topic.t # "string"
      THEN Thrown("ERR_NOT_VALID_TOPIC")
      ELSE LET peersInTopic ==
                 IF topic.v \in DOMAIN topicsMap
                   THEN SelectSeq(topicsMap[topic.v],
                                  LAMBDA o : isReadable(objs[o])
                                               \/ isWritable(objs[o]))
                   ELSE <<>>
           IN  [err |-> "",
                value |-> [i \in 1 .. Len(peersInTopic) |->
                             toB58String(objs[peersInTopic[i]].id)]]

\* getSubscribers that looks at the topic before it looks at started
getSubscribers_topicFirst(isStarted, topicsMap, objs, topic) ==
  IF ~Truthy(topic) \/ topic.t # "string"
    THEN Thrown("ERR_NOT_VALID_TOPIC")
    ELSE IF ~isStarted
      THEN Thrown("ERR_NOT_STARTED_YET")
      ELSE LET peersInTopic == IF topic.v \in DOMAIN topicsMap
                                 THEN topicsMap[topic.v]
                                 ELSE <<>>
           IN  [err |-> "",
                value |-> [i \in 1 .. Len(peersInTopic) |->
                             toB58String(objs[peersInTopic[i]].id)]]

\* getSubscribers that lists the ids from the last subscriber to the first
getSubscribers_reversed(isStarted, topicsMap, objs, topic) ==
  IF ~isStarted
    THEN Thrown("ERR_NOT_STARTED_YET")
    ELSE IF ~Truthy(topic) \/ topic.t # "string"
      THEN Thrown("ERR_NOT_VALID_TOPIC")
      ELSE LET peersInTopic == IF topic.v \in DOMAIN topicsMap
                                 THEN topicsMap[topic.v]
                                 ELSE <<>>
               n == Len(peersInTopic)
           IN  [err |-> "",
                value |-> [i \in 1 .. n |->
                             toB58String(objs[peersInTopic[n + 1 - i]].id)]]

\* getSubscribers(topic): the error it throws ("": none) and what it returns
getSubscribers(isStarted, topicsMap, objs, topic) ==
  IF ~isStarted
    THEN Thrown("ERR_NOT_STARTED_YET")
    ELSE IF ~Truthy(topic) \/ topic.t # "string"
      THEN Thrown("ERR_NOT_VALID_TOPIC")
      ELSE LET peersInTopic == IF topic.v \in DOMAIN topicsMap
                                 THEN topicsMap[topic.v]
                                 ELSE <<>>
           IN  [err |-> "",
                value |-> [i \in 1 .. Len(peersInTopic) |->
                             toB58String(objs[peersInTopic[i]].id)]]

GetSubscribers(topic) ==
  /\ Did("getSubscribers", "", NoObj,
         getSubscribers(started, topics, ps, topic),
         <<Ev("call:getSubscribers", "", NoObj, topic)>>)
  /\ UNCHANGED <<started, registrarId, peers, topics, strictSigning,
                 signMessages, ps, nextObj, nextStream, nextReceipt, reset,
                 aborted, live, handler, topologies, pending, stopping, calls,
                 lastMsg, buffer, trace, wire, consumer, _dials, dialing,
                 listening, dialPeers>>

\* the subclass adds the PeerStreams of a peer that subscribed
SubscriptionAdded(t, id) ==
  /\ peers[id] # NoObj
  /\ ~InSeq(topics[t], peers[id])
  /\ topics' = [topics EXCEPT ![t] = Append(@, peers[id])]
  /\ Did("subclass:add", id, peers[id], "ok", <<>>)
  /\ UNCHANGED <<started, registrarId, peers, strictSigning, signMessages,
                 ps, nextObj, nextStream, nextReceipt, reset, aborted, live,
                 handler, topologies, pending, stopping, calls, lastMsg,
                 buffer, trace, wire, consumer, _dials, dialing,
                 listening, dialPeers>>

NextSubs ==
  \/ Start
  \/ \E c \in pending : StartResume(c)
  \/ Stop
  \/ StopResume
  \/ \E p \in PeerIds : OnIncomingStream(p)
  \/ \E p \in PeerIds : OnPeerConnected(p)
  \/ \E c \in pending : NewStreamResolved(c)
  \/ \E c \in pending : AttachOutboundResumed(c)
  \/ \E p \in PeerIds : OnPeerDisconnected(p)
  \/ \E t \in Topics, id \in B58Ids : SubscriptionAdded(t, id)
  \/ \E t \in Topics, o \in Objs : SubclassDeletesSubscriber(t, o)
  \/ \E topic \in TopicArgs : GetSubscribers(topic)

SpecSubs == Init /\ [][NextSubs]_vars

\* the PeerStreams under test
Alone == 1

\* what is written
Data == {10, 20}

\* write that puts the data in front of what the queue holds
write_prepends(p, buf, data) ==
  IF ~isWritable(p)
    THEN [err |-> "No writable connection", buffer |-> buf]
    ELSE [err |-> "",
          buffer |-> [buf EXCEPT ![p.outboundStream] = <<data>> \o @]]

\* write that pushes the data twice
write_twice(p, buf, data) ==
  IF ~isWritable(p)
    THEN [err |-> "No writable connection", buffer |-> buf]
    ELSE [err |-> "",
          buffer |-> [buf EXCEPT ![p.outboundStream] =
                        Append(Append(@, data), data)]]

\* write(data): the error it throws ("": none) and the queues after it
write(p, buf, data) ==
  IF ~isWritable(p)
    THEN [err |-> "No writable connection", buffer |-> buf]
    ELSE [err |-> "",
          buffer |-> [buf EXCEPT ![p.outboundStream] = Append(@, data)]]

InitPS ==
  /\ started = FALSE
  /\ registrarId = NoReceipt
  /\ peers = [id \in B58Ids |-> NoObj]
  /\ topics = [t \in Topics |-> <<>>]
  /\ strictSigning = TRUE
  /\ signMessages = TRUE
  /\ ps = [o \in Objs |-> IF o = Alone
                            THEN NewPeerStreams(1, Protocol)
                            ELSE NoPeerStreams]
  /\ nextObj = Alone + 1
  /\ nextStream = 1
  /\ nextReceipt = 1
  /\ reset = {}
  /\ aborted = {}
  /\ live = {}
  /\ handler = FALSE
  /\ topologies = {}
  /\ pending = {}
  /\ stopping = 0
  /\ calls = 0
  /\ last = [op |-> "new", id |-> "", o |-> NoObj, res |-> "", log |-> <<>>]
  /\ lastMsg = NoMsg
  /\ buffer = [s \in Streams |-> <<>>]
  /\ trace = <<>>
  /\ wire = [s \in Streams |-> <<>>]
  /\ consumer = [s \in Streams |-> "iterating"]
  /\ _dials = {}
  /\ dialing = {}
  /\ listening = 0
  /\ dialPeers = [id \in B58Ids |-> NoReferences]

\* one call recorded: its entry, the events it caused, and how it ended
Traced(call, log, ending) ==
  trace' = (trace \o <<Ev(call, "", Alone, NoStream)>> \o log) \o ending

Returned(call) == <<Ev(call, "", Alone, NoStream)>>

PSAttachInboundStream ==
  /\ calls < MaxCalls
  /\ calls' = calls + 1
  /\ LET H == attachInboundStream(HeapNow, Alone, nextStream)
     IN /\ Commit(H)
        /\ Did("attachInboundStream", "", Alone, "ok", H.log)
        /\ Traced("call:attachInboundStream", H.log,
                  Returned("return:attachInboundStream"))
  /\ nextStream' = nextStream + 1
  /\ UNCHANGED <<started, registrarId, topics, strictSigning, signMessages,
                 nextReceipt, handler, topologies, pending, stopping, lastMsg,
                 buffer, wire, consumer, _dials, dialing,
                 listening, dialPeers>>

\* attachOutboundStream(stream) up to its await, or to its end when there is
\* no previous queue to end
PSAttachOutboundStream ==
  /\ calls < MaxCalls
  /\ calls' = calls + 1
  /\ LET _prevStream == ps[Alone].outboundStream
         H1 == attachOutboundStreamBegin(HeapNow, Alone)
         H2 == attachOutboundStreamFinish(H1, Alone, nextStream, FALSE)
     IN IF _prevStream # NoStream
          THEN /\ Commit(H1)
               /\ pending' = pending \cup
                    {Cont("attachOutboundStream", 1, Alone, nextStream)}
               /\ Did("attachOutboundStream", "", Alone, "suspended", H1.log)
               /\ Traced("call:attachOutboundStream", H1.log, <<>>)
          ELSE /\ Commit(H2)
               /\ pending' = pending
               /\ Did("attachOutboundStream", "", Alone, "ok", H2.log)
               /\ Traced("call:attachOutboundStream", H2.log,
                         Returned("return:attachOutboundStream"))
  /\ nextStream' = nextStream + 1
  /\ UNCHANGED <<started, registrarId, topics, strictSigning, signMessages,
                 nextReceipt, handler, topologies, stopping, lastMsg, buffer, wire, consumer, _dials, dialing,
                 listening, dialPeers>>

\* attachOutboundStream after `await this.outboundStream.end(false)`
PSAttachOutboundResumed(c) ==
  /\ c.k = "attachOutboundStream"
  /\ LET H == attachOutboundStreamFinish(HeapNow, c.o, c.s, TRUE)
     IN /\ Commit(H)
        /\ Did("attachOutboundStream:resume", "", c.o, "ok", H.log)
        /\ trace' = (trace \o H.log) \o Returned("return:attachOutboundStream")
  /\ pending' = pending \ {c}
  /\ UNCHANGED <<started, registrarId, topics, strictSigning, signMessages,
                 nextStream, nextReceipt, handler, topologies, stopping,
                 calls, lastMsg, buffer, wire, consumer, _dials, dialing,
                 listening, dialPeers>>

PSWrite(data) ==
  /\ calls < MaxCalls
  /\ calls' = calls + 1
  /\ LET w == write(ps[Alone], buffer, data)
     IN /\ buffer' = w.buffer
        /\ Did("write", "", Alone, IF w.err = "" THEN "ok" ELSE w.err, <<>>)
        /\ trace' = Append(Append(trace, Ev("call:write", "", Alone, data)),
                           Ev(IF w.err = "" THEN "return:write" ELSE "throw",
                              "", Alone, NoStream))
  /\ UNCHANGED <<started, registrarId, peers, topics, strictSigning,
                 signMessages, ps, nextObj, nextStream, nextReceipt, reset,
                 aborted, live, handler, topologies, pending, stopping,
                 lastMsg, wire, consumer, _dials, dialing,
                 listening, dialPeers>>

PSClose ==
  /\ calls < MaxCalls
  /\ calls' = calls + 1
  /\ LET H == close(HeapNow, Alone)
     IN /\ Commit(H)
        /\ Did("close", "", Alone, "ok", H.log)
        /\ Traced("call:close", H.log, Returned("return:close"))
  /\ UNCHANGED <<started, registrarId, topics, strictSigning, signMessages,
                 nextStream, nextReceipt, handler, topologies, pending,
                 stopping, lastMsg, buffer, wire, consumer, _dials, dialing,
                 listening, dialPeers>>

NextPS ==
  \/ PSAttachInboundStream
  \/ PSAttachOutboundStream
  \/ \E c \in pending : PSAttachOutboundResumed(c)
  \/ \E data \in Data : PSWrite(data)
  \/ PSClose

SpecPS == InitPS /\ [][NextPS]_vars

(***************************************************************************)
(* One PeerStreams with the two loops around it: the pipe that takes what  *)
(* write() pushed on a queue to the raw outbound stream, and the consumer  *)
(* that iterates an inbound sequence.                                      *)
(***************************************************************************)
\* lp.encode(): one length-prefixed frame for each item
lpEncode(data) == [prefix |-> "length", data |-> data]

\* pipe(this.outboundStream, lp.encode(), this._rawOutboundStream) takes the
\* next item of queue s to raw stream s, unless that stream was reset
PipeDelivers(s) ==
  /\ s \notin reset
  /\ Len(wire[s]) < Len(buffer[s])
  /\ wire' = [wire EXCEPT ![s] = Append(@, lpEncode(buffer[s][Len(@) + 1]))]
  /\ Did("pipe", "", NoObj, "ok", <<>>)
  /\ UNCHANGED <<started, registrarId, peers, topics, strictSigning,
                 signMessages, ps, nextObj, nextStream, nextReceipt, reset,
                 aborted, live, handler, topologies, pending, stopping, calls,
                 lastMsg, buffer, trace, consumer, _dials, dialing,
                 listening, dialPeers>>

\* abortable without returnOnAbort: the loop over it gets an AbortError
abortable_throws(isAborted) == IF isAborted THEN "AbortError" ELSE "iterating"

\* abortable(source, signal, { returnOnAbort: true }): what the loop over it
\* gets at its next step
abortable(isAborted) == IF isAborted THEN "done" ELSE "iterating"

\* the loop over inbound sequence s takes its next step and leaves the loop
ConsumerObserves(s) ==
  /\ consumer[s] = "iterating"
  /\ abortable(s \in aborted) # "iterating"
  /\ consumer' = [consumer EXCEPT ![s] = abortable(s \in aborted)]
  /\ Did("for await", "", NoObj, abortable(s \in aborted), <<>>)
  /\ UNCHANGED <<started, registrarId, peers, topics, strictSigning,
                 signMessages, ps, nextObj, nextStream, nextReceipt, reset,
                 aborted, live, handler, topologies, pending, stopping, calls,
                 lastMsg, buffer, trace, wire, _dials, dialing,
                 listening, dialPeers>>

NextFlow ==
  \/ PSAttachInboundStream
  \/ PSAttachOutboundStream
  \/ \E c \in pending : PSAttachOutboundResumed(c)
  \/ \E data \in Data : PSWrite(data)
  \/ PSClose
  \/ \E s \in Streams : PipeDelivers(s)
  \/ \E s \in Streams : ConsumerObserves(s)

\* the event loop runs every loop that can take a step
SpecFlow ==
  /\ InitPS
  /\ [][NextFlow]_vars
  /\ \A s \in Streams : WF_vars(PipeDelivers(s))
  /\ \A s \in Streams : WF_vars(ConsumerObserves(s))

(***************************************************************************)
(* The dial-based router: start() and every peer:connect event dial the    *)
(* peer through the host, and the callback of the dial adds the peer.      *)
(* `dialing` holds the dials the host has not completed yet: the peer, the *)
(* call that began the dial, whether start() awaits it, and whether stop() *)
(* ran since it began.                                                     *)
(***************************************************************************)
MaxDialCalls == 4

Dial(p, call, awaited) ==
  [peer |-> p, call |-> call, awaited |-> awaited, beforeStop |-> FALSE]

\* _dialPeer(peerInfo) goes on to libp2p.dialProtocol: the peer is not known
\* as connected and no dial to it is registered
_dialPeer(dials, known, p, isConnected) ==
  /\ ~(known[toB58String(p)] # NoReferences /\ isConnected)
  /\ toB58String(p) \notin dials

InitDial ==
  /\ started = FALSE
  /\ registrarId = NoReceipt
  /\ peers = [id \in B58Ids |-> NoObj]
  /\ topics = [t \in Topics |-> <<>>]
  /\ strictSigning = TRUE
  /\ signMessages = TRUE
  /\ ps = [o \in Objs |-> NoPeerStreams]
  /\ nextObj = 1
  /\ nextStream = 1
  /\ nextReceipt = 1
  /\ reset = {}
  /\ aborted = {}
  /\ live = {}
  /\ handler = FALSE
  /\ topologies = {}
  /\ pending = {}
  /\ stopping = 0
  /\ calls = 0
  /\ last = [op |-> "new", id |-> "", o |-> NoObj, res |-> "", log |-> <<>>]
  /\ lastMsg = NoMsg
  /\ buffer = [s \in Streams |-> <<>>]
  /\ trace = <<>>
  /\ wire = [s \in Streams |-> <<>>]
  /\ consumer = [s \in Streams |-> "iterating"]
  /\ _dials = {}
  /\ dialing = {}
  /\ listening = 0
  /\ dialPeers = [id \in B58Ids |-> NoReferences]

\* start() up to `await Promise.all(...)`: peerBook holds the peers the host
\* knows, isConnected what peer.isConnected yields for each
DialStart(peerBook, isConnected) ==
  /\ calls < MaxDialCalls
  /\ calls' = calls + 1
  /\ IF started
       THEN /\ Did("start", "", NoObj, "ERR_ALREADY_STARTED", <<>>)
            /\ UNCHANGED <<handler, listening, _dials, dialing, pending>>
       ELSE LET toDial == {p \in peerBook :
                             _dialPeer(_dials, dialPeers, p, isConnected[p])}
            IN /\ handler' = TRUE
               /\ listening' = listening + 1
               /\ _dials' = _dials \cup {toB58String(p) : p \in toDial}
               /\ dialing' = dialing \cup
                               {Dial(p, calls + 1, TRUE) : p \in toDial}
               /\ pending' = pending \cup
                               {Cont("dial:start", NoPeer, NoObj, calls + 1)}
               /\ Did("start", "", NoObj, "suspended", <<>>)
  /\ UNCHANGED <<started, registrarId, peers, topics, strictSigning,
                 signMessages, ps, nextObj, nextStream, nextReceipt, reset,
                 aborted, live, topologies, stopping, lastMsg, buffer, trace,
                 wire, consumer, dialPeers>>

\* start() after every dial it began has completed
DialStartResume(c) ==
  /\ c.k = "dial:start"
  /\ \A d \in dialing : ~(d.awaited /\ d.call = c.s)
  /\ started' = TRUE
  /\ pending' = pending \ {c}
  /\ Did("start:resume", "", NoObj, "ok", <<>>)
  /\ UNCHANGED <<registrarId, peers, topics, strictSigning, signMessages, ps,
                 nextObj, nextStream, nextReceipt, reset, aborted, live,
                 handler, topologies, stopping, calls, lastMsg, buffer, trace,
                 wire, consumer, _dials, dialing, listening, dialPeers>>

\* the host emits peer:connect for p: each registered listener is _dialPeer
PeerConnect(p, isConnected) ==
  /\ listening > 0
  /\ calls < MaxDialCalls
  /\ calls' = calls + 1
  /\ IF _dialPeer(_dials, dialPeers, p, isConnected)
       THEN /\ _dials' = _dials \cup {toB58String(p)}
            /\ dialing' = dialing \cup {Dial(p, calls + 1, FALSE)}
            /\ Did("peer:connect", toB58String(p), NoObj, "dialing",
                   <<Ev("call:dialProtocol", toB58String(p), NoObj,
                        calls + 1)>>)
       ELSE /\ Did("peer:connect", toB58String(p), NoObj, "ignored", <<>>)
            /\ UNCHANGED <<_dials, dialing>>
  /\ UNCHANGED <<started, registrarId, peers, topics, strictSigning,
                 signMessages, ps, nextObj, nextStream, nextReceipt, reset,
                 aborted, live, handler, topologies, pending, stopping,
                 lastMsg, buffer, trace, wire, consumer, listening,
                 dialPeers>>

\* the callback of libp2p.dialProtocol for dial d, with or without an error
DialCompletes(d, err) ==
  /\ d \in dialing
  /\ LET idB58Str == toB58String(d.peer)
         pubsubStopped == idB58Str \notin _dials
     IN /\ _dials' = _dials \ {idB58Str}
        /\ dialing' = dialing \ {d}
        /\ IF err \/ pubsubStopped
             THEN /\ Did("dial:complete", idB58Str, NoObj,
                         IF err THEN "error" ELSE "stopped", <<>>)
                  /\ UNCHANGED dialPeers
             ELSE /\ dialPeers' = [dialPeers EXCEPT ![idB58Str] = @ + 1]
                  /\ Did("dial:complete", idB58Str, NoObj, "ok",
                         <<Ev("call:_onDial", idB58Str, NoObj, d.call)>>)
  /\ UNCHANGED <<started, registrarId, peers, topics, strictSigning,
                 signMessages, ps, nextObj, nextStream, nextReceipt, reset,
                 aborted, live, handler, topologies, pending, stopping, calls,
                 lastMsg, buffer, trace, wire, consumer, listening>>

\* _onConnection(protocol, conn) and the callback of conn.getPeerInfo
OnConnection(p, err) ==
  /\ handler
  /\ calls < MaxDialCalls
  /\ calls' = calls + 1
  /\ IF err
       THEN /\ Did("_onConnection", "", NoObj, "error", <<>>)
            /\ UNCHANGED dialPeers
       ELSE /\ dialPeers' = [dialPeers EXCEPT ![toB58String(p)] = @ + 1]
            /\ Did("_onConnection", toB58String(p), NoObj, "ok",
                   <<Ev("call:_processConnection", toB58String(p), NoObj,
                        calls + 1)>>)
  /\ UNCHANGED <<started, registrarId, peers, topics, strictSigning,
                 signMessages, ps, nextObj, nextStream, nextReceipt, reset,
                 aborted, live, handler, topologies, pending, stopping,
                 lastMsg, buffer, trace, wire, consumer, _dials, dialing,
                 listening>>

\* stop() of the dial-based router
DialStop ==
  /\ calls < MaxDialCalls
  /\ calls' = calls + 1
  /\ IF ~started
       THEN /\ Did("stop", "", NoObj, "ERR_NOT_STARTED_YET", <<>>)
            /\ UNCHANGED <<started, handler, listening, _dials, dialing,
                           dialPeers>>
       ELSE /\ handler' = FALSE
            /\ listening' = listening - 1
            /\ _dials' = {}
            /\ dialing' = {[d EXCEPT !.beforeStop = TRUE] : d \in dialing}
            /\ dialPeers' = [id \in B58Ids |-> NoReferences]
            /\ started' = FALSE
            /\ Did("stop", "", NoObj, "ok", <<>>)
  /\ UNCHANGED <<registrarId, peers, topics, strictSigning, signMessages, ps,
                 nextObj, nextStream, nextReceipt, reset, aborted, live,
                 topologies, pending, stopping, lastMsg, buffer, trace, wire,
                 consumer>>

NextDial ==
  \/ \E peerBook \in SUBSET PeerIds, isConnected \in [PeerIds -> BOOLEAN] :
       DialStart(peerBook, isConnected)
  \/ \E c \in pending : DialStartResume(c)
  \/ \E p \in PeerIds, isConnected \in BOOLEAN : PeerConnect(p, isConnected)
  \/ \E d \in dialing, err \in BOOLEAN : DialCompletes(d, err)
  \/ \E p \in PeerIds, err \in BOOLEAN : OnConnection(p, err)
  \/ DialStop

SpecDial == InitDial /\ [][NextDial]_vars

(***************************************************************************)
(* Properties.                                                             *)
(***************************************************************************)
\* the keys of `peers`
Keys58 == {id \in B58Ids : peers[id] # NoObj}

InPeers(o) == \E id \in B58Ids : peers[id] = o

\* all four stream fields of a PeerStreams are null
Closed(p) ==
  /\ p.rawOutboundStream = NoStream
  /\ p.outboundStream = NoStream
  /\ p.rawInboundStream = NoStream
  /\ p.inboundStream = NoStream

\* C1: one call to PeerStreams.close() emits `close` exactly once, in
\* whatever state the PeerStreams is.
C1_CloseEmitsOnce ==
  last.op = "close" => Emitted(last.log, "close", last.o) = 1

VerifyYieldsFalse(m) ==
  /\ verifySignature(m).state = "resolved"
  /\ ~verifySignature(m).value.v

\* C2: validate fails with ERR_INVALID_SIGNATURE whenever the message carries
\* a signature for which verify yields false, strict signing or not.
C2_InvalidSignatureRejected ==
  (last.op = "validate" /\ Truthy(lastMsg.signature)
     /\ VerifyYieldsFalse(lastMsg))
    => last.res = "ERR_INVALID_SIGNATURE"

\* C3: for a message without signature, validate fails with
\* ERR_MISSING_SIGNATURE under strict signing and succeeds without it.
C3_UnsignedByPolicy ==
  (last.op = "validate" /\ ~Truthy(lastMsg.signature))
    => last.res = (IF strictSigning THEN "ERR_MISSING_SIGNATURE" ELSE "ok")

C3_Witness ==
  /\ last.op = "validate"
  /\ lastMsg.signature = Undefined
  /\ ~strictSigning
  /\ last.res = "ok"

\* C4: every entry of peers is stored under the base58 id of its own
\* PeerStreams; a PeerStreams that was removed (returned by _removePeer, closed
\* by stop, or after it emitted `close`) is not in peers: not at the end of
\* the run that removed it, and never again (a PeerStreams in peers still
\* carries the router's close listener, which every removal takes away).
C4_PeersKeyedAndNotStale ==
  /\ \A id \in Keys58 : toB58String(ps[peers[id]].id) = id
  /\ \A i \in 1 .. Len(last.log) :
       (last.log[i].e \in {"close", "return:_removePeer"}
          /\ last.log[i].o # NoObj)
         => ~InPeers(last.log[i].o)
  /\ last.op = "stop:resume" => Keys58 = {}
  /\ \A o \in Objs : InPeers(o) => ps[o].onceClose

C4_Witness ==
  /\ last.op = "_onPeerDisconnected"
  /\ \E i \in 1 .. Len(last.log) :
       last.log[i].e = "return:_removePeer" /\ last.log[i].o # NoObj
  /\ Keys58 # {}

\* C5: a second onPeerConnected for a peer that is in peers with a writable
\* PeerStreams: the call opens exactly one stream; when newStream resolves the
\* entry of peers stays the same PeerStreams, _removePeer is not called, no
\* `close` is emitted and the previous raw outbound stream is reset (a write
\* to a reset stream fails); when attachOutboundStream resumes, the new
\* stream is the outbound.
C5_SecondConnectReplacesOutbound ==
  [][
        /\ last'.op = "_onPeerConnected"
          => /\ Count(last'.log, "call:newStream") = 1
             /\ peers' = peers
             /\ ps' = ps
        /\ (/\ last'.op = "_onPeerConnected:newStream"
            /\ peers[last'.id] # NoObj
            /\ isWritable(ps[peers[last'.id]]))
          => /\ peers' = peers
             /\ last'.o = peers[last'.id]
             /\ Count(last'.log, "call:newStream") = 0
             /\ Count(last'.log, "call:_removePeer") = 0
             /\ Count(last'.log, "close") = 0
             /\ ps[last'.o].rawOutboundStream \in reset'
             /\ \E c \in pending' \ pending :
                  c.k = "attachOutboundStream" /\ c.o = last'.o
        /\ last'.op = "_onPeerConnected:attached"
          => /\ peers' = peers
             /\ Count(last'.log, "call:_removePeer") = 0
             /\ Count(last'.log, "close") = 0
             /\ \E c \in pending \ pending' :
                  /\ c.k = "attachOutboundStream"
                  /\ c.o = last'.o
                  /\ ps'[c.o].outboundStream = c.s
                  /\ ps'[c.o].rawOutboundStream = c.s
                  /\ c.s \notin reset'
    ]_vars

\* the second connect is over: the peer is still in peers, writable, and a
\* stream it held before has been reset
C5_Witness ==
  /\ last.op = "_onPeerConnected:attached"
  /\ peers[last.id] = last.o
  /\ isWritable(ps[last.o])
  /\ reset # {}

\* C6: _onPeerDisconnected(p) / _removePeer(p): when p is in peers its
\* PeerStreams is closed (its outbound queue ended, its inbound stream
\* aborted, its stream fields null), its entry deleted and the PeerStreams
\* returned; when p is not in peers nothing is returned and peers and every
\* PeerStreams stay as they are.
C6_DisconnectRemoves ==
  [][last'.op = "_onPeerDisconnected"
       => IF peers[last'.id] # NoObj
            THEN /\ peers' = [peers EXCEPT ![last'.id] = NoObj]
                 /\ Closed(ps'[peers[last'.id]])
                 /\ isWritable(ps[peers[last'.id]])
                      => \A r \in live' :
                           r.q # ps[peers[last'.id]].outboundStream
                 /\ ps[peers[last'.id]].inboundStream # NoStream
                      => ps[peers[last'.id]].inboundStream \in aborted'
                 /\ Count(last'.log, "call:_removePeer") = 1
                 /\ last'.log[Len(last'.log)] =
                      Ev("return:_removePeer", last'.id, peers[last'.id],
                         NoStream)
            ELSE /\ last'.log =
                      <<Ev("call:_removePeer", last'.id, NoObj, NoStream),
                        Ev("return:_removePeer", last'.id, NoObj, NoStream)>>
                 /\ UNCHANGED <<peers, ps, reset, aborted, live, pending>>
    ]_vars

C6_Witness ==
  /\ last.op = "_onPeerDisconnected"
  /\ \E i \in 1 .. Len(last.log) :
       /\ last.log[i].e = "return:_removePeer"
       /\ last.log[i].o # NoObj
       /\ Count(last.log, "call:reset") = 1
       /\ Count(last.log, "call:abort") = 1

\* C7: with no entry for p in peers, _onPeerConnected(p) whose newStream
\* resolved adds exactly one entry for p, writable and not readable, and
\* _onIncomingStream from p adds exactly one entry for p, readable and not
\* writable, and calls _processMessages exactly once with (base58 id of p,
\* the inbound stream of that PeerStreams, that PeerStreams).  With an entry
\* for p, neither adds one: after both, peers holds one entry for p.
C7_FirstContactAddsOneEntry ==
  [][
        /\ (last'.op = "_onPeerConnected:newStream" /\ peers[last'.id] = NoObj)
          => /\ peers' = [peers EXCEPT ![last'.id] = nextObj]
             /\ last'.o = nextObj
             /\ last'.res = "ok"
             /\ isWritable(ps'[nextObj])
             /\ ~isReadable(ps'[nextObj])
             /\ toB58String(ps'[nextObj].id) = last'.id
             /\ Count(last'.log, "call:_processMessages") = 0
        /\ (last'.op = "_onIncomingStream" /\ peers[last'.id] = NoObj)
          => /\ peers' = [peers EXCEPT ![last'.id] = nextObj]
             /\ last'.o = nextObj
             /\ isReadable(ps'[nextObj])
             /\ ~isWritable(ps'[nextObj])
             /\ toB58String(ps'[nextObj].id) = last'.id
             /\ Count(last'.log, "call:_processMessages") = 1
             /\ InSeq(last'.log,
                      Ev("call:_processMessages", last'.id, nextObj,
                         ps'[nextObj].inboundStream))
        /\ (/\ last'.op \in {"_onPeerConnected:newStream", "_onIncomingStream"}
            /\ peers[last'.id] # NoObj)
          => peers' = peers
    ]_vars

\* the first PeerStreams ever made came from an incoming stream
C7_Witness ==
  /\ last.op = "_onIncomingStream"
  /\ last.o = 1
  /\ nextObj = 2
  /\ Keys58 = {last.id}
  /\ peers[last.id] = 1
  /\ isReadable(ps[1])
  /\ ~isWritable(ps[1])

\* C8: when conn.newStream fails in _onPeerConnected(p) the handler is over
\* without an error leaving it, and nothing is attached or scheduled; any
\* _onIncomingStream from p leaves a readable PeerStreams for p in peers; a
\* PeerStreams gets an outbound stream only in the steps of an
\* _onPeerConnected whose newStream resolved.
C8_NewStreamFailureIsAbsorbed ==
  [][
        /\ (/\ last'.op = "_onPeerConnected"
            /\ InSeq(last'.log,
                     Ev("call:newStream", last'.id, NoObj, NoStream)))
          => /\ last'.res # "error"
             /\ Count(last'.log, "throw") = 0
             /\ UNCHANGED <<peers, ps, live, reset, aborted, pending>>
        /\ last'.op = "_onIncomingStream"
          => /\ peers'[last'.id] # NoObj
             /\ isReadable(ps'[peers'[last'.id]])
        /\ \A o \in Objs :
             (/\ ps'[o].outboundStream # NoStream
              /\ ps'[o].outboundStream # ps[o].outboundStream)
               => /\ last'.op \in {"_onPeerConnected:newStream",
                                   "_onPeerConnected:attached"}
                  /\ last'.o = o
    ]_vars

\* newStream just failed for a peer that is in peers with an inbound stream
\* only
C8_Witness ==
  /\ last.op = "_onPeerConnected"
  /\ last.res = "newStream failed"
  /\ peers[last.id] # NoObj
  /\ isReadable(ps[peers[last.id]])
  /\ ~isWritable(ps[peers[last.id]])

\* C9: start() on a started router calls neither registrar.handle nor
\* registrar.register and leaves started, peers, topics and the stored
\* receipt as they are.
C9_StartWhenStartedIsNoOp ==
  [][(started /\ last'.op = "start")
       => /\ Count(last'.log, "call:handle") = 0
          /\ Count(last'.log, "call:register") = 0
          /\ UNCHANGED <<started, peers, topics, registrarId, handler,
                         topologies, pending>>
    ]_vars

C9_Witness ==
  /\ last.op = "start"
  /\ last.res = "already started"
  /\ started
  /\ Keys58 # {}
  /\ topics["t"] # <<>>

\* C10: stop() on a router that is not started (never started, or stopped)
\* does not call registrar.unregister and leaves started, peers and topics as
\* they are.
C10_StopWhenNotStartedIsNoOp ==
  [][(~started /\ last'.op = "stop")
       => /\ Count(last'.log, "call:unregister") = 0
          /\ UNCHANGED <<started, peers, topics, registrarId, handler,
                         topologies, stopping>>
    ]_vars

\* stop() on a router that was started and stopped before
C10_Witness ==
  /\ last.op = "stop"
  /\ last.res = "not started"
  /\ ~started
  /\ registrarId # NoReceipt

\* C11: stop() on a started router calls registrar.unregister exactly once,
\* with the receipt that register resolved to and start() stored; when stop()
\* is over started is false, peers is empty and every PeerStreams that was in
\* peers is closed, neither readable nor writable.
C11_StopTearsDown ==
  [][
        /\ (started /\ last'.op = "stop")
          => /\ Count(last'.log, "call:unregister") = 1
             /\ InSeq(last'.log,
                      Ev("call:unregister", "", NoObj, registrarId))
             /\ registrarId \in 1 .. (nextReceipt - 1)
             /\ peers' = peers
        /\ last'.op = "start:resume"
          => \E c \in pending \ pending' :
               c.k = "start" /\ registrarId' = c.s /\ c.s < nextReceipt
        /\ last'.op = "stop:resume"
          => /\ ~started'
             /\ Keys58' = {}
             /\ Count(last'.log, "call:unregister") = 0
             /\ \A id \in Keys58 :
                  /\ Closed(ps'[peers[id]])
                  /\ ~isReadable(ps'[peers[id]])
                  /\ ~isWritable(ps'[peers[id]])
    ]_vars

\* stop() is over and closed a PeerStreams that had an outbound stream
C11_Witness ==
  /\ last.op = "stop:resume"
  /\ ~started
  /\ Keys58 = {}
  /\ Count(last.log, "call:reset") >= 1
  /\ Count(last.log, "close") >= 1

\* C12: when close() of one PeerStreams fails during stop(), stop() is still
\* over without error, every PeerStreams is closed, peers is empty and
\* started is false.
C12_StopSurvivesCloseFailure ==
  last.op = "stop:closeFailed"
    => /\ last.res # "error"
       /\ ~started
       /\ Keys58 = {}
       /\ \A o \in Objs : o < nextObj => Closed(ps[o])

\* C13: when registrar.unregister fails during stop(), the error does not
\* reach the caller of stop() and the teardown goes on (it is done, or stop()
\* is still on its way to it).
C13_UnregisterFailureSwallowed ==
  (last.op = "stop" /\ Count(last.log, "throw") >= 1)
    => /\ last.res # "error"
       /\ \/ stopping > 0
          \/ ~started /\ Keys58 = {}

\* C14: when registrar.handle or registrar.register fails during start(),
\* the error reaches the caller and started stays false (no receipt is
\* stored, nothing is left suspended); any start() on a router that is not
\* started attempts the registration, so a later start() tries again.
C14_StartFailurePropagates ==
  [][
        /\ (~started /\ last'.op = "start" /\ pending' = pending)
          => /\ last'.res = "error"
             /\ Count(last'.log, "throw") = 1
             /\ ~started'
             /\ registrarId' = registrarId
             /\ topologies' = topologies
        /\ (~started /\ last'.op = "start")
          => Count(last'.log, "call:handle") = 1
    ]_vars

\* register failed in a start() of a router that had been started and
\* stopped before
C14_Witness ==
  /\ last.op = "start"
  /\ last.res = "error"
  /\ Count(last.log, "call:register") = 1
  /\ ~started
  /\ registrarId # NoReceipt

\* C15: _addPeer(peerId, protocol), as the two handlers call it: with an
\* entry for the id it returns that PeerStreams, constructs nothing, adds no
\* listener and leaves peers alone; with none it constructs exactly one
\* PeerStreams, stores it under the base58 id and gives it the one `close`
\* listener, which removes the PeerStreams from peers when it fires.  peers
\* never holds one PeerStreams under two ids, nor two for one id.
C15_AddPeerIsIdempotent ==
  [][
        /\ (/\ last'.op \in {"_onIncomingStream", "_onPeerConnected:newStream"}
            /\ peers[last'.id] # NoObj)
          => /\ nextObj' = nextObj
             /\ peers' = peers
             /\ last'.o = peers[last'.id]
             /\ ps'[last'.o].onceClose = ps[last'.o].onceClose
             /\ ps'[last'.o].id = ps[last'.o].id
        /\ (/\ last'.op \in {"_onIncomingStream", "_onPeerConnected:newStream"}
            /\ peers[last'.id] = NoObj)
          => /\ nextObj' = nextObj + 1
             /\ peers' = [peers EXCEPT ![last'.id] = nextObj]
             /\ last'.o = nextObj
             /\ toB58String(ps'[nextObj].id) = last'.id
             /\ ps'[nextObj].protocol = Protocol
             /\ ps'[nextObj].onceClose
             /\ \A o \in Objs \ {nextObj} : ps'[o] = ps[o]
        /\ \A o \in Objs :
             (ps[o].onceClose /\ Emitted(last'.log, "close", o) >= 1)
               => /\ ~InPeers(o)'
                  /\ ~ps'[o].onceClose
        /\ \A id1 \in Keys58', id2 \in Keys58' :
             peers'[id1] = peers'[id2] => id1 = id2
    ]_vars

\* an incoming stream found the PeerStreams that a connect had made
C15_Witness ==
  /\ last.op = "_onIncomingStream"
  /\ nextObj = 2
  /\ last.o = 1
  /\ peers[last.id] = 1
  /\ isWritable(ps[1])
  /\ isReadable(ps[1])

\* the calls made on the PeerStreams under test and how they ended, in order
MethodMarks ==
  {"call:attachInboundStream", "return:attachInboundStream",
   "call:attachOutboundStream", "return:attachOutboundStream",
   "call:write", "return:write", "throw", "call:close", "return:close"}

TraceCalls == SelectSeq(trace, LAMBDA x : x.e \in MethodMarks)

\* nothing but attachOutboundStream was called, at least twice, each call
\* after the one before it had returned
AttachOutboundInSequence ==
  /\ Len(TraceCalls) >= 4
  /\ Len(TraceCalls) % 2 = 0
  /\ \A i \in 1 .. Len(TraceCalls) :
       TraceCalls[i].e = (IF i % 2 = 1 THEN "call:attachOutboundStream"
                                       ELSE "return:attachOutboundStream")

\* C16: attachOutboundStream called twice in sequence on one PeerStreams,
\* the second call after the first is over, emits exactly one stream:outbound
\* over the two calls and no close.
C16_SecondAttachOutboundIsQuiet ==
  AttachOutboundInSequence
    => /\ Count(trace, "stream:outbound") = 1
       /\ Count(trace, "close") = 0

C16_Witness ==
  /\ AttachOutboundInSequence
  /\ Len(TraceCalls) = 4
  /\ isWritable(ps[Alone])
  /\ Cardinality(reset) = 1

\* C17: over any sequence of attachInboundStream, attachOutboundStream, write
\* and close on one PeerStreams, stream:inbound is emitted at most once and
\* stream:outbound at most once.
C17_AttachEventsAtMostOnce ==
  /\ Count(trace, "stream:inbound") <= 1
  /\ Count(trace, "stream:outbound") <= 1

\* the last two calls were close(), the second after the first had returned
ClosedTwiceInARow ==
  /\ Len(TraceCalls) >= 4
  /\ \A i \in 0 .. 3 :
       TraceCalls[Len(TraceCalls) - i].e =
         (IF i % 2 = 0 THEN "return:close" ELSE "call:close")

\* C18: once close() has returned, the four stream fields are null, and a
\* further close() emits no event and changes no field.
C18_CloseIsTerminal ==
  /\ last.op = "close" => Closed(ps[Alone])
  /\ ClosedTwiceInARow => (last.log = <<>> /\ Closed(ps[Alone]))

\* C19: write on a PeerStreams with no outbound queue fails with the
\* not-writable error and changes no field, no queue and adds no event; on a
\* writable one it appends the data, as one item, to the outbound queue and
\* changes nothing else.
C19_WriteChecksWritable ==
  [][last'.op = "write"
       => /\ Len(trace') = Len(trace) + 2
          /\ trace'[Len(trace) + 1].e = "call:write"
          /\ UNCHANGED <<ps, live, reset, aborted, pending, peers>>
          /\ IF ~isWritable(ps[Alone])
               THEN /\ last'.res = "No writable connection"
                    /\ trace'[Len(trace) + 2].e = "throw"
                    /\ buffer' = buffer
               ELSE /\ last'.res = "ok"
                    /\ trace'[Len(trace) + 2].e = "return:write"
                    /\ buffer' =
                         [buffer EXCEPT ![ps[Alone].outboundStream] =
                            Append(@, trace'[Len(trace) + 1].s)]
    ]_vars

\* a second item was written to the queue
C19_Witness ==
  /\ last.op = "write"
  /\ last.res = "ok"
  /\ isWritable(ps[Alone])
  /\ Len(buffer[ps[Alone].outboundStream]) = 2

\* the key pair and the message the last signMessage was given
SignedBy == last.log[1].id

Given == last.log[1].s

\* C20, as the code has it: when m.from is the peer id of key pair k,
\* verifySignature(signMessage(k, m)) yields true; changing data, seqno or
\* topicIDs (their order included) of the signed message makes it yield
\* false; changing from makes it fail with an error (the attached key is not
\* the originator's), as does signing a message whose from is not k's id.
C20_SignVerifyRoundTrip ==
  /\ last.op = "sign+verify"
       => IF Given.from = IdOfKey(SignedBy)
            THEN last.res.state = "resolved" /\ last.res.value.v
            ELSE /\ last.res.state = "rejected"
                 /\ last.res.value = "Public Key does not match the originator"
  /\ (last.op = "sign+change+verify" /\ Given.from = IdOfKey(SignedBy))
       => IF last.id = "from"
            THEN /\ last.res.state = "rejected"
                 /\ last.res.value = "Public Key does not match the originator"
            ELSE last.res.state = "resolved" /\ ~last.res.value.v

\* only the order of the topics was changed, and verify yielded false
C20_Witness ==
  /\ last.op = "sign+change+verify"
  /\ last.id = "topicIDs"
  /\ Given.from = IdOfKey(SignedBy)
  /\ Given.topicIDs = <<"t", "u">>
  /\ lastMsg.topicIDs = <<"u", "t">>
  /\ last.res.state = "resolved"
  /\ ~last.res.value.v

\* C20 as claimed: for every key k and message m, verify(sign(k, m)) is
\* true, and changing any one of from, data, seqno or topicIDs between sign
\* and verify makes verify yield false.
C20_AsClaimed ==
  /\ last.op = "sign+verify"
       => last.res.state = "resolved" /\ last.res.value.v
  /\ last.op = "sign+change+verify"
       => last.res.state = "resolved" /\ ~last.res.value.v

\* C21: signMessage(peerId, m) signs SignPrefix followed by the encoding of
\* m without signature and key, the bytes verifySignature rebuilds, also when
\* m carries a signature or a key already, and returns a copy of m whose key
\* is the public key of the signer (so the result verifies when m.from is
\* the signer).
C21_SignsBaseMessage ==
  last.op \in {"sign+verify", "sign+verify:carrying"}
    => /\ lastMsg.signature =
            Signature(SignedBy, <<SignPrefix>> \o Encode(BaseMessage(Given)))
       /\ lastMsg.key = KeyBytes(SignedBy)
       /\ BaseMessage(lastMsg) = BaseMessage(Given)
       /\ Given.from = IdOfKey(SignedBy)
            => last.res.state = "resolved" /\ last.res.value.v

\* C22: messagePublicKey yields the key carried in message.key only when the
\* peer id of that key is message.from, and fails otherwise; without
\* message.key it yields the key inlined in message.from and fails when none
\* is inlined.  So verifySignature never yields true for a signature whose
\* signer is not message.from.
C22_KeyBelongsToOriginator ==
  last.op = "validate"
    => /\ IF Truthy(lastMsg.key)
            THEN IF IdOfKey(lastMsg.key.key) = lastMsg.from
                   THEN /\ messagePublicKey(lastMsg).state = "resolved"
                        /\ messagePublicKey(lastMsg).value = lastMsg.key.key
                   ELSE messagePublicKey(lastMsg).state = "rejected"
            ELSE IF lastMsg.from.mh = "identity"
                   THEN /\ messagePublicKey(lastMsg).state = "resolved"
                        /\ messagePublicKey(lastMsg).value = lastMsg.from.digest
                   ELSE messagePublicKey(lastMsg).state = "rejected"
       /\ Truthy(lastMsg.signature)
            => \/ verifySignature(lastMsg).state = "rejected"
               \/ ~verifySignature(lastMsg).value.v
               \/ IdOfKey(lastMsg.signature.signer) = lastMsg.from

\* a message that carries a key that is not its originator's, with a
\* signature made with that key
C22_Witness ==
  /\ last.op = "validate"
  /\ Truthy(lastMsg.key)
  /\ Truthy(lastMsg.signature)
  /\ lastMsg.signature.signer = lastMsg.key.key
  /\ IdOfKey(lastMsg.key.key) # lastMsg.from
  /\ verifySignature(lastMsg).state = "rejected"

\* C23: with signMessages true, validate(_buildMessage(m)) succeeds for every
\* well-formed m whose from is the local peer id, given as bytes or as a
\* string, with strictSigning true and false: the message built carries a
\* signature that verifies.
C23_BuiltMessageValidates ==
  (/\ last.op = "_buildMessage+validate"
   /\ signMessages
   /\ normalizeOutRpcMessage(Given).from = IdOfKey(SignedBy))
    => /\ last.res = "ok"
       /\ Truthy(lastMsg.signature)
       /\ verifySignature(lastMsg).state = "resolved"
       /\ verifySignature(lastMsg).value.v

\* a message from the local peer with string from and string data, built and
\* validated under strict signing
C23_Witness ==
  /\ last.op = "_buildMessage+validate"
  /\ signMessages
  /\ strictSigning
  /\ IsB58String(Given.from)
  /\ Given.from.b58 = IdOfKey(SignedBy)
  /\ IsString(Given.data)
  /\ last.res = "ok"

\* C24: with signMessages false, _buildMessage(m) returns the normalised form
\* of m, with no signature and no key.
C24_UnsignedIsNormalised ==
  (last.op = "_buildMessage+validate" /\ ~signMessages)
    => /\ lastMsg = normalizeOutRpcMessage(Given)
       /\ lastMsg.signature = Undefined
       /\ lastMsg.key = Undefined

\* the topic the last getSubscribers was given
TopicGiven == last.log[1].s

\* C25: getSubscribers(topic) fails with ERR_NOT_STARTED_YET whenever the
\* router is not started, whatever the topic, and on a started router with
\* ERR_NOT_VALID_TOPIC when the topic is empty, absent or not a string; the
\* state of the router is the same after the failure.
C25_GetSubscribersFails ==
  [][
     (last'.op = "getSubscribers"
        /\ (~started \/ TopicGiven'.t # "string" \/ TopicGiven'.v = ""))
       => /\ last'.res.err = IF ~started THEN "ERR_NOT_STARTED_YET"
                                         ELSE "ERR_NOT_VALID_TOPIC"
          /\ UNCHANGED <<started, registrarId, peers, topics, ps, reset,
                         aborted, live, handler, topologies, pending,
                         stopping>>
    ]_vars

\* an invalid topic given to a router that is not started
C25_Witness ==
  /\ last.op = "getSubscribers"
  /\ ~started
  /\ TopicGiven.t = "number"
  /\ last.res.err = "ERR_NOT_STARTED_YET"

C27_DeliveredInOrder ==
  /\ [][
        \A s \in Streams :
          buffer'[s] # buffer[s]
            => /\ s = ps[Alone].outboundStream
               /\ trace'[Len(trace) + 1].e = "call:write"
               /\ buffer'[s] = Append(buffer[s], trace'[Len(trace) + 1].s)
       ]_vars
  /\ [](\A s \in Streams :
          /\ Len(wire[s]) <= Len(buffer[s])
          /\ \A i \in 1 .. Len(wire[s]) : wire[s][i] = lpEncode(buffer[s][i]))
  /\ \A s \in Streams :
       (Len(wire[s]) < Len(buffer[s]))
         ~> (Len(wire[s]) = Len(buffer[s]) \/ s \in reset)

\* two different items written on one queue and both delivered
C27_Witness ==
  \E s \in Streams :
    /\ Len(wire[s]) = 2
    /\ wire[s][1].data # wire[s][2].data
    /\ wire[s][1].data = buffer[s][1]

\* C28: the loop over an inbound sequence whose iterator was cancelled (by a
\* further attachInboundStream or by close, which _removePeer and stop call)
\* gets a normal end of the sequence in the end, and never an error from
\* the cancellation.
C28_CancelEndsCleanly ==
  /\ [](\A s \in Streams : consumer[s] # "AbortError")
  /\ \A s \in Streams : (s \in aborted) ~> (consumer[s] = "done")

\* a loop that ended after close() cancelled its iterator
C28_Witness ==
  \E s \in Streams :
    /\ s \in aborted
    /\ consumer[s] = "done"
    /\ Closed(ps[Alone])

\* C29: in the dial-based router at most one dial to a peer is in flight at
\* any time, and a peer:connect for a peer with a dial in flight starts no
\* further dial.
C29_OneDialPerPeer ==
  /\ [](\A p \in PeerIds : Cardinality({d \in dialing : d.peer = p}) <= 1)
  /\ [][
        (/\ last'.op = "peer:connect"
         /\ \E d \in dialing : toB58String(d.peer) = last'.id)
          => dialing' = dialing
       ]_vars

\* C30: in the dial-based router a dial that was in flight when stop() was
\* called is not processed when it completes: _onDial is not called for it
\* and no peer is added, whatever happened since.
C30_StoppedDialNotProcessed ==
  [][
     \A d \in dialing :
       (d.beforeStop /\ d \notin dialing')
         => /\ Count(last'.log, "call:_onDial") = 0
            /\ dialPeers' = dialPeers
    ]_vars

\* C31: whatever the interleaving of the handlers, a PeerStreams has at
\* every moment at most one outbound queue that has not been ended, namely
\* the one it holds, piped into the raw stream it holds: every queue it
\* held before has been ended.  (Its inbound iterators are aborted in the
\* run that replaces them.)
C31_OneActiveQueue ==
  /\ \A o \in Objs : Cardinality({r \in live : r.o = o}) <= 1
  /\ \A r \in live : /\ ps[r.o].outboundStream = r.q
                     /\ ps[r.o].rawOutboundStream = r.q

\* C32: for one peer, an _onPeerConnected whose newStream resolved and an
\* _onIncomingStream, in either order, also when the incoming stream comes
\* while _onPeerConnected waits for newStream: the second of the two finds
\* the PeerStreams the first one made, makes no other, and leaves it in
\* peers both readable and writable.
C32_ConnectAndIncomingMeet ==
  [][
        /\ (/\ last'.op = "_onPeerConnected:newStream"
            /\ last'.res = "ok"
            /\ peers[last'.id] # NoObj
            /\ isReadable(ps[peers[last'.id]]))
          => /\ peers' = peers
             /\ nextObj' = nextObj
             /\ isReadable(ps'[peers[last'.id]])
             /\ isWritable(ps'[peers[last'.id]])
             /\ ps'[peers[last'.id]].inboundStream =
                  ps[peers[last'.id]].inboundStream
        /\ (/\ last'.op = "_onIncomingStream"
            /\ peers[last'.id] # NoObj
            /\ isWritable(ps[peers[last'.id]]))
          => /\ peers' = peers
             /\ nextObj' = nextObj
             /\ isReadable(ps'[peers[last'.id]])
             /\ isWritable(ps'[peers[last'.id]])
             /\ ps'[peers[last'.id]].outboundStream =
                  ps[peers[last'.id]].outboundStream
    ]_vars

\* the incoming stream came while _onPeerConnected waited for newStream,
\* whose stream is the older one: one PeerStreams, readable and writable
C32_Witness ==
  /\ last.op = "_onPeerConnected:newStream"
  /\ last.res = "ok"
  /\ nextObj = 2
  /\ peers[last.id] = 1
  /\ isReadable(ps[1])
  /\ isWritable(ps[1])
  /\ ps[1].outboundStream < ps[1].inboundStream

\* C33: a start() issued while an earlier start() waits in a registrar call
\* invokes neither registrar.handle nor registrar.register.
C33_SecondStartRegistersNothing ==
  [][
     (last'.op = "start" /\ \E c \in pending : c.k = "start")
       => /\ Count(last'.log, "call:handle") = 0
          /\ Count(last'.log, "call:register") = 0
          /\ topologies' = topologies
    ]_vars

\* C34: when attachOutboundStream replaces an outbound queue, everything
\* write put on the old queue has been delivered to the old raw stream, one
\* frame for each item, when that stream is reset (which is before the new
\* queue is installed).
C34_ReplacedQueueIsDrained ==
  [][
     last'.op = "attachOutboundStream"
       => \A s \in reset' \ reset :
            wire[s] = [i \in 1 .. Len(buffer[s]) |-> lpEncode(buffer[s][i])]
    ]_vars

\* the runs that end a queue quietly: attachOutboundStream up to its await
QuietEnd == last'.op = "_onPeerConnected:newStream" /\ last'.res = "suspended"

\* C35: when the outbound queue that a PeerStreams in peers holds ends and
\* the end is not quiet (close() ended it, or its pipe is over), the raw
\* outbound stream of the PeerStreams is reset, its two outbound fields are
\* null, it has emitted close, its peer is not in peers any more and its
\* inbound iterator is aborted; when attachOutboundStream ends the queue to
\* replace it, no close is emitted and peers stays as it is.
C35_QueueEndClosesPeer ==
  [][
     \A r \in live \ live' :
       (InPeers(r.o) /\ ps[r.o].outboundStream = r.q)
         => IF QuietEnd
              THEN /\ Count(last'.log, "close") = 0
                   /\ peers' = peers
                   /\ ps[r.o].rawOutboundStream \in reset'
              ELSE /\ ps[r.o].rawOutboundStream \in reset'
                   /\ ps'[r.o].rawOutboundStream = NoStream
                   /\ ps'[r.o].outboundStream = NoStream
                   /\ Emitted(last'.log, "close", r.o) >= 1
                   /\ peers'[toB58String(ps[r.o].id)] = NoObj
                   /\ ps[r.o].inboundStream # NoStream
                        => ps[r.o].inboundStream \in aborted'
    ]_vars

\* the pipe of a readable and writable PeerStreams in peers is over
C35_Witness ==
  /\ last.op = "pipe:ended"
  /\ Emitted(last.log, "close", last.o) >= 1
  /\ Count(last.log, "call:abort") = 1
  /\ Count(last.log, "call:reset") = 1
  /\ peers[last.id] = NoObj
  /\ Closed(ps[last.o])

\* C36: when _onPeerDisconnected(p) was handled while an _onPeerConnected(p)
\* waited for newStream or inside attachOutboundStream, and that
\* _onPeerConnected is over next, with no other handler for p left to
\* resume, p is not in peers.
C36_DisconnectWinsOverPendingConnect ==
  [][
     (/\ last.op = "_onPeerDisconnected"
      /\ last'.op \in {"_onPeerConnected:newStream",
                       "_onPeerConnected:attached"}
      /\ last'.res = "ok"
      /\ last'.id = last.id
      /\ \A c \in pending' : toB58String(c.p) # last.id)
       => peers'[last.id] = NoObj
    ]_vars

\* C37: on a router that stop() has stopped (nothing registered, no stop()
\* or start() under way), an _onPeerConnected that waited for newStream
\* while stop() ran adds no peer and attaches no stream when newStream
\* resolves: peers stays empty.
C37_StoppedRouterAddsNoPeer ==
  [][
     (/\ last'.op = "_onPeerConnected:newStream"
      /\ ~started
      /\ ~handler
      /\ topologies = {}
      /\ stopping = 0
      /\ \A c \in pending : c.k # "start")
       => /\ peers' = peers
          /\ Keys58' = {}
          /\ ps' = ps
          /\ live' = live
    ]_vars

\* C38: a PeerStreams that was constructed and is not in peers any more (it
\* was closed and removed by _removePeer or by stop) holds no outbound queue
\* and no raw outbound stream, whatever was suspended on it meanwhile.
C38_RemovedStaysClosed ==
  \A o \in Objs :
    (o < nextObj /\ ~InPeers(o))
      => /\ ps[o].outboundStream = NoStream
         /\ ps[o].rawOutboundStream = NoStream

\* C39: no step of the router itself (start, stop, the handlers with their
\* _addPeer and _removePeer, getSubscribers) changes topics, only the
\* subclass does; so a PeerStreams that was removed from peers is still in
\* topics[t] and getSubscribers(t) still lists its id.
C39_TopicsBelongToSubclass ==
  /\ [][last'.op \notin {"subclass:add", "subclass:delete"}
          => topics' = topics]_vars
  /\ [](last.op = "getSubscribers" /\ last.res.err = ""
          /\ TopicGiven.v \in Topics
          => /\ Len(last.res.value) = Len(topics[TopicGiven.v])
             /\ \A i \in 1 .. Len(last.res.value) :
                  last.res.value[i] =
                    toB58String(ps[topics[TopicGiven.v][i]].id))

\* getSubscribers lists a peer whose PeerStreams _removePeer has closed and
\* deleted from peers
C39_Witness ==
  /\ last.op = "getSubscribers"
  /\ started
  /\ Len(last.res.value) = 1
  /\ ~InPeers(topics["t"][1])
  /\ Closed(ps[topics["t"][1]])
  /\ peers[last.res.value[1]] = NoObj

\* the places of a log where the router's once('close') listener of o ran:
\* o emitted close and the next entry is the listener's call of _removePeer
ListenerRuns(log, o) ==
  {i \in 1 .. Len(log) - 1 :
     /\ log[i].e = "close"
     /\ log[i].o = o
     /\ log[i + 1].e = "call:_removePeer"}

\* no call of _removePeer begins inside another one
NotReentered(log) ==
  \A i, j \in 1 .. Len(log) :
    (i < j /\ log[i].e = "call:_removePeer" /\ log[j].e = "call:_removePeer")
      => \E k \in (i + 1) .. (j - 1) : log[k].e = "return:_removePeer"

\* C40: close(), _removePeer and stop() run to their end, and in the run of
\* any of them the removal listener of a PeerStreams runs at most once and
\* only if it had not run before, after which it is gone for good; the
\* close() inside _removePeer starts no second _removePeer, and no
\* PeerStreams is removed twice in one run.
C40_RemovalRunsOnce ==
  [][
     /\ NotReentered(last'.log)
     /\ \A o \in Objs :
          /\ Cardinality(ListenerRuns(last'.log, o)) <= 1
          /\ ListenerRuns(last'.log, o) # {}
               => o < nextObj /\ ps[o].onceClose /\ ~ps'[o].onceClose
          /\ (o < nextObj /\ ~ps[o].onceClose) => ~ps'[o].onceClose
          /\ Cardinality({i \in 1 .. Len(last'.log) :
                            /\ last'.log[i].e = "return:_removePeer"
                            /\ last'.log[i].o = o}) <= 1
    ]_vars

\* close() of a PeerStreams that is in peers: its listener ran once and
\* removed it, and the close() inside _removePeer emitted the second close
C40_Witness ==
  /\ last.op = "close"
  /\ Cardinality(ListenerRuns(last.log, last.o)) = 1
  /\ Count(last.log, "call:_removePeer") = 1
  /\ Emitted(last.log, "return:_removePeer", last.o) = 1
  /\ Emitted(last.log, "close", last.o) >= 2
  /\ peers[last.id] = NoObj
  /\ ~ps[last.o].onceClose

====
